---- MODULE Spec2Model ----
(***************************************************************************)
(* Model of src/backend/optimizer/plan/setrefs.c: the final pass of the    *)
(* planner (set_plan_references and its helpers).                          *)
(*                                                                         *)
(* Plan nodes, expressions and range-table entries are records; a C List   *)
(* is a sequence; a NULL pointer is the record NoNode / NoPlan.  The       *)
(* recursive C routines are RECURSIVE operators that return the rewritten  *)
(* value together with the side effects on PlannerGlobal.  elog(ERROR)     *)
(* is the flag err of a result: nothing after it takes effect.             *)
(*                                                                         *)
(* The model is of a production build: Assert() and everything inside      *)
(* #ifdef USE_ASSERT_CHECKING / DEBUG compile to nothing.                  *)
(***************************************************************************)
EXTENDS Integers, Sequences, FiniteSets, TLC

(***************************************************************************)
(* Program constants (values of the headers the source includes).          *)
(***************************************************************************)
INNER == 65000
OUTER == 65001
FirstBootstrapObjectId == 10000
FirstLowInvalidHeapAttributeNumber == -9
InvalidOid == 0
REGCLASSOID == 2205
OIDOID == 26

(***************************************************************************)
(* Bounds of the model.                                                    *)
(***************************************************************************)
\* longest glob->finalrtable left by earlier set_plan_references calls
MaxPriorRtable == 1
\* most record_plan_function_dependency calls made by the inlining code
MaxInlined == 1
\* most relations and most columns of a relation that the Vars handed to
\* fix_join_expr and fix_hashclauses refer to
MaxRel == 2
MaxAttno == 2

(***************************************************************************)
(* Generic helpers.                                                        *)
(***************************************************************************)
RECURSIVE FlattenSeq(_)
FlattenSeq(ss) == IF ss = <<>> THEN <<>> ELSE Head(ss) \o FlattenSeq(Tail(ss))

list_length(l) == Len(l)

(***************************************************************************)
(* Expression nodes.                                                       *)
(***************************************************************************)
NoNode == [tag |-> "NULL"]

makeVar(varno, varattno) ==
    [tag |-> "Var", varno |-> varno, varattno |-> varattno,
     varnoold |-> varno, varoattno |-> varattno]

Const(consttype, constvalue, constisnull) ==
    [tag |-> "Const", consttype |-> consttype, constvalue |-> constvalue,
     constisnull |-> constisnull]

FuncExpr(funcid, funcretset, args) ==
    [tag |-> "FuncExpr", funcid |-> funcid, funcretset |-> funcretset, args |-> args]

OpExpr(opno, args) ==
    [tag |-> "OpExpr", opno |-> opno, opfuncid |-> InvalidOid, args |-> args]

Aggref(aggfnoid, args) ==
    [tag |-> "Aggref", aggfnoid |-> aggfnoid, args |-> args]

PlaceHolderVar(phid, phexpr) ==
    [tag |-> "PlaceHolderVar", phid |-> phid, phexpr |-> phexpr]

RelabelType(arg) == [tag |-> "RelabelType", arg |-> arg]

GroupId == [tag |-> "GroupId"]

TargetEntry(expr, resno, resname, ressortgroupref, resjunk) ==
    [tag |-> "TargetEntry", expr |-> expr, resno |-> resno, resname |-> resname,
     ressortgroupref |-> ressortgroupref, resorigtbl |-> 0, resorigcol |-> 0,
     resjunk |-> resjunk]

IsA(node, t) == node.tag = t

HasArgs(node) == node.tag \in {"FuncExpr", "OpExpr", "Aggref"}

(***************************************************************************)
(* The catalog, consulted through get_opcode and SearchSysCache1(PROCOID). *)
(***************************************************************************)
\* pg_operator: operator -> implementing function ("=" on int4, and a user operator)
pg_operator == (96 :> 65) @@ (20096 :> 10065)

\* pg_proc: the functions the syscache finds
pg_proc == {65, 870, 1067, 10065, 10870}

get_opcode(opno) == IF opno \in DOMAIN pg_operator THEN pg_operator[opno] ELSE InvalidOid

SearchSysCache1_PROCOID(funcid) == funcid \in pg_proc

(***************************************************************************)
(* Side effects of expression fixing on PlannerGlobal: the entries         *)
(* appended to glob->relationOids and glob->invalItems, and elog(ERROR).   *)
(***************************************************************************)
NoEff == [relationOids |-> <<>>, invalItems |-> <<>>, err |-> FALSE]

ErrEff == [relationOids |-> <<>>, invalItems |-> <<>>, err |-> TRUE]

\* e1 happens, then e2 unless e1 raised the error
ThenEff(e1, e2) ==
    IF e1.err THEN e1
    ELSE [relationOids |-> e1.relationOids \o e2.relationOids,
          invalItems |-> e1.invalItems \o e2.invalItems,
          err |-> e2.err]

RECURSIVE SeqEff(_)
SeqEff(es) == IF es = <<>> THEN NoEff ELSE ThenEff(Head(es), SeqEff(Tail(es)))

EffOf(r) == [relationOids |-> r.relationOids, invalItems |-> r.invalItems, err |-> r.err]

WithEff(node, e) ==
    [node |-> node, relationOids |-> e.relationOids, invalItems |-> e.invalItems,
     err |-> e.err]

\* the effects of a list of results, in list order
EffsOf(rs) == SeqEff([i \in 1..Len(rs) |-> EffOf(rs[i])])

NodesOf(rs) == [i \in 1..Len(rs) |-> rs[i].node]

(***************************************************************************)
(* record_plan_function_dependency                                         *)
(***************************************************************************)
PlanInvalItem(funcid) == [cacheId |-> "PROCOID", tupleId |-> funcid]

\* mutant: no function is tracked, built-in or not
record_plan_function_dependency_skip_all(funcid) == NoEff

record_plan_function_dependency(funcid) ==
    IF funcid >= FirstBootstrapObjectId
    THEN IF ~SearchSysCache1_PROCOID(funcid)
         THEN ErrEff
         ELSE [relationOids |-> <<>>, invalItems |-> <<PlanInvalItem(funcid)>>,
               err |-> FALSE]
    ELSE NoEff

(***************************************************************************)
(* fix_expr_common: set_opfuncid on the node, and its dependencies.        *)
(***************************************************************************)
\* mutant: a NULL literal counts as well
ISREGCLASSCONST_or_null(con) == con.consttype = REGCLASSOID \/ con.consttype = OIDOID

ISREGCLASSCONST(con) ==
    (con.consttype = REGCLASSOID \/ con.consttype = OIDOID) /\ ~con.constisnull

set_opfuncid(opexpr) ==
    IF opexpr.opfuncid = InvalidOid
    THEN [opexpr EXCEPT !.opfuncid = get_opcode(opexpr.opno)]
    ELSE opexpr

\* the node as fix_expr_common leaves it (operator implementation filled in)
fix_expr_common_node(node) ==
    IF IsA(node, "OpExpr") THEN set_opfuncid(node) ELSE node

\* what fix_expr_common appends to the dependency lists
fix_expr_common(node) ==
    CASE IsA(node, "Aggref") -> record_plan_function_dependency(node.aggfnoid)
      [] IsA(node, "FuncExpr") -> record_plan_function_dependency(node.funcid)
      [] IsA(node, "OpExpr") ->
            record_plan_function_dependency(set_opfuncid(node).opfuncid)
      [] IsA(node, "Const") ->
            IF ISREGCLASSCONST(node)
            THEN [relationOids |-> <<node.constvalue>>, invalItems |-> <<>>,
                  err |-> FALSE]
            ELSE NoEff
      [] OTHER -> NoEff

(***************************************************************************)
(* equal(): structural equality; opfuncid may differ when one side is 0.   *)
(***************************************************************************)
RECURSIVE StripOpfuncid(_)
StripOpfuncid(node) ==
    CASE HasArgs(node) ->
            LET args == [i \in 1..Len(node.args) |-> StripOpfuncid(node.args[i])]
            IN  IF IsA(node, "OpExpr")
                THEN [node EXCEPT !.args = args, !.opfuncid = InvalidOid]
                ELSE [node EXCEPT !.args = args]
      [] IsA(node, "RelabelType") -> [node EXCEPT !.arg = StripOpfuncid(node.arg)]
      [] IsA(node, "PlaceHolderVar") ->
            [node EXCEPT !.phexpr = StripOpfuncid(node.phexpr)]
      [] IsA(node, "TargetEntry") -> [node EXCEPT !.expr = StripOpfuncid(node.expr)]
      [] OTHER -> node

equal(a, b) == StripOpfuncid(a) = StripOpfuncid(b)

(***************************************************************************)
(* Range-table entries and rt_fetch.                                       *)
(***************************************************************************)
RangeTblEntry(rtekind, relid) ==
    [rtekind |-> rtekind, relid |-> relid, subquery |-> rtekind = "RTE_SUBQUERY",
     funcexpr |-> NoNode, joinaliasvars |-> <<>>, values_lists |-> <<>>,
     pseudocols |-> <<>>]

\* the defining expression of pseudo column attno of rte (NoNode: none)
cdb_rte_find_pseudo_column(rte, attno) ==
    LET i == FirstLowInvalidHeapAttributeNumber - attno + 1
    IN  IF i \in 1..Len(rte.pseudocols) THEN rte.pseudocols[i] ELSE NoNode

(***************************************************************************)
(* expression_tree_mutator / expression_tree_walker: the callback on every *)
(* child of the node, the node rebuilt around the results.                 *)
(***************************************************************************)
\* a list of results as one result: the nodes, and the effects in list order
ListResult(rs) == WithEff(NodesOf(rs), EffsOf(rs))

\* node with field f replaced by the result r
Rebuilt(node, f, r) == WithEff([node EXCEPT ![f] = r.node], EffOf(r))

expression_tree_mutator(node, mutator(_)) ==
    CASE HasArgs(node) ->
            Rebuilt(node, "args",
                    ListResult([i \in 1..Len(node.args) |-> mutator(node.args[i])]))
      [] IsA(node, "RelabelType") -> Rebuilt(node, "arg", mutator(node.arg))
      [] IsA(node, "TargetEntry") -> Rebuilt(node, "expr", mutator(node.expr))
      [] IsA(node, "PlaceHolderVar") -> Rebuilt(node, "phexpr", mutator(node.phexpr))
      [] OTHER -> WithEff(node, NoEff)

\* what fix_expr_common did to the node, then what the children's walk did
AfterCommon(here, r) == WithEff(r.node, ThenEff(here, EffOf(r)))

(***************************************************************************)
(* fix_scan_expr_walker: fix_expr_common on every node of a tree.          *)
(***************************************************************************)
RECURSIVE fix_scan_expr_walker(_)
fix_scan_expr_walker(node) ==
    IF IsA(node, "NULL") THEN WithEff(node, NoEff)
    ELSE AfterCommon(fix_expr_common(node),
                     expression_tree_mutator(fix_expr_common_node(node),
                                             LAMBDA n : fix_scan_expr_walker(n)))

(***************************************************************************)
(* fix_scan_expr_mutator, fix_scan_expr, fix_scan_list                     *)
(***************************************************************************)
copyVar(var) == var

\* var->varno += rtoffset; if (var->varnoold > 0) var->varnoold += rtoffset
fix_scan_expr_shift(var, rtoffset) ==
    [var EXCEPT !.varno = @ + rtoffset,
                !.varnoold = IF @ > 0 THEN @ + rtoffset ELSE @]

\* the shifted Var, or the copy of the defining expression of a pseudo column
fix_scan_expr_pseudo(var, finalrtable) ==
    IF var.varattno <= FirstLowInvalidHeapAttributeNumber
    THEN IF var.varno \notin 1..Len(finalrtable)
         THEN WithEff(var, ErrEff)
         ELSE fix_scan_expr_walker(
                cdb_rte_find_pseudo_column(finalrtable[var.varno], var.varattno))
    ELSE WithEff(var, NoEff)

\* mutant: the shift is the current length of the final range table
fix_scan_expr_var_by_length(node, finalrtable, rtoffset) ==
    fix_scan_expr_pseudo(fix_scan_expr_shift(copyVar(node), Len(finalrtable)),
                         finalrtable)

\* the Var case of fix_scan_expr_mutator
fix_scan_expr_var(node, finalrtable, rtoffset) ==
    fix_scan_expr_pseudo(fix_scan_expr_shift(copyVar(node), rtoffset), finalrtable)

RECURSIVE fix_scan_expr_mutator(_, _, _)
fix_scan_expr_mutator(node, finalrtable, rtoffset) ==
    CASE IsA(node, "NULL") -> WithEff(node, NoEff)
      [] IsA(node, "Var") -> fix_scan_expr_var(node, finalrtable, rtoffset)
      [] IsA(node, "PlaceHolderVar") ->
            fix_scan_expr_mutator(node.phexpr, finalrtable, rtoffset)
      [] OTHER ->
            AfterCommon(fix_expr_common(node),
                        expression_tree_mutator(
                            fix_expr_common_node(node),
                            LAMBDA n : fix_scan_expr_mutator(n, finalrtable, rtoffset)))

fix_scan_expr(glob, node, rtoffset) ==
    fix_scan_expr_mutator(node, glob.finalrtable, rtoffset)

\* fix_scan_expr on a List: the mutator maps over the list's cells
fix_scan_list(glob, lst, rtoffset) ==
    ListResult([i \in 1..Len(lst) |-> fix_scan_expr(glob, lst[i], rtoffset)])

(***************************************************************************)
(* Indexed target lists.                                                   *)
(***************************************************************************)
RECURSIVE StripRelabel(_)
StripRelabel(expr) == IF IsA(expr, "RelabelType") THEN StripRelabel(expr.arg) ELSE expr

\* the tlist_vinfo entries of the plain-Var entries of tlist, in list order
RECURSIVE tlist_vinfos(_)
tlist_vinfos(tlist) ==
    IF tlist = <<>> THEN <<>>
    ELSE LET tle == Head(tlist)
             expr == StripRelabel(tle.expr)
         IN  (IF IsA(expr, "Var")
              THEN <<[varno |-> expr.varno, varattno |-> expr.varattno,
                      resno |-> tle.resno]>>
              ELSE <<>>) \o tlist_vinfos(Tail(tlist))

build_tlist_index(tlist) ==
    [present |-> TRUE,
     tlist |-> tlist,
     vars |-> tlist_vinfos(tlist),
     has_ph_vars |->
        \E i \in 1..Len(tlist) :
            /\ ~IsA(StripRelabel(tlist[i].expr), "Var")
            /\ IsA(tlist[i].expr, "PlaceHolderVar"),
     has_non_vars |->
        \E i \in 1..Len(tlist) :
            \/ IsA(tlist[i].expr, "RelabelType")
            \/ /\ ~IsA(StripRelabel(tlist[i].expr), "Var")
               /\ ~IsA(tlist[i].expr, "PlaceHolderVar")]

\* the vinfo entries of the Vars of tlist that belong to a rel other than ignore_rel
RECURSIVE tlist_vinfos_other(_, _)
tlist_vinfos_other(tlist, ignore_rel) ==
    IF tlist = <<>> THEN <<>>
    ELSE LET tle == Head(tlist)
         IN  (IF IsA(tle.expr, "Var") /\ tle.expr.varno # ignore_rel
              THEN <<[varno |-> tle.expr.varno, varattno |-> tle.expr.varattno,
                      resno |-> tle.resno]>>
              ELSE <<>>) \o tlist_vinfos_other(Tail(tlist), ignore_rel)

build_tlist_index_other_vars(tlist, ignore_rel) ==
    [present |-> TRUE,
     tlist |-> tlist,
     vars |-> tlist_vinfos_other(tlist, ignore_rel),
     has_ph_vars |-> \E i \in 1..Len(tlist) : IsA(tlist[i].expr, "PlaceHolderVar"),
     has_non_vars |-> FALSE]

\* a NULL indexed_tlist pointer
NoItlist ==
    [present |-> FALSE, tlist |-> <<>>, vars |-> <<>>, has_ph_vars |-> FALSE,
     has_non_vars |-> FALSE]

\* mutant: the match keeps the Var's own attribute number instead of the resno
search_indexed_tlist_for_var_keep_attno(var, itlist, newvarno, rtoffset) ==
    LET hits == {i \in 1..Len(itlist.vars) :
                    /\ itlist.vars[i].varno = var.varno
                    /\ itlist.vars[i].varattno = var.varattno}
    IN  IF hits = {} THEN NoNode
        ELSE [var EXCEPT !.varno = newvarno,
                         !.varnoold = IF @ > 0 THEN @ + rtoffset ELSE @]

\* mutant: every match is reported as coming from the left child
search_indexed_tlist_for_var_always_outer(var, itlist, newvarno, rtoffset) ==
    LET hits == {i \in 1..Len(itlist.vars) :
                    /\ itlist.vars[i].varno = var.varno
                    /\ itlist.vars[i].varattno = var.varattno}
    IN  IF hits = {} THEN NoNode
        ELSE LET vinfo == itlist.vars[CHOOSE i \in hits : \A j \in hits : i <= j]
             IN  [var EXCEPT !.varno = OUTER,
                             !.varattno = vinfo.resno,
                             !.varnoold = IF @ > 0 THEN @ + rtoffset ELSE @]

search_indexed_tlist_for_var(var, itlist, newvarno, rtoffset) ==
    LET hits == {i \in 1..Len(itlist.vars) :
                    /\ itlist.vars[i].varno = var.varno
                    /\ itlist.vars[i].varattno = var.varattno}
    IN  IF hits = {} THEN NoNode
        ELSE LET vinfo == itlist.vars[CHOOSE i \in hits : \A j \in hits : i <= j]
                 newvar == copyVar(var)
             IN  [newvar EXCEPT !.varno = newvarno,
                                !.varattno = vinfo.resno,
                                !.varnoold = IF @ > 0 THEN @ + rtoffset ELSE @]

\* the least member of a set of list positions (0: the set is empty)
FirstHit(hits) == IF hits = {} THEN 0 ELSE CHOOSE i \in hits : \A j \in hits : i <= j

\* the first entry of targetlist whose expression equals node (0: none)
tlist_member(node, targetlist) ==
    FirstHit({i \in 1..Len(targetlist) : equal(node, targetlist[i].expr)})

makeVarFromTargetEntry(varno, tle) == makeVar(varno, tle.resno)

\* the Var that stands for entry i of the indexed list (NoNode when i is 0)
VarForEntry(itlist, i, newvarno) ==
    IF i # 0
    THEN [makeVarFromTargetEntry(newvarno, itlist.tlist[i])
            EXCEPT !.varnoold = 0, !.varoattno = 0]
    ELSE NoNode

\* mutant: structural matching is never attempted
search_indexed_tlist_for_non_var_never(node, itlist, newvarno) == NoNode

search_indexed_tlist_for_non_var(node, itlist, newvarno) ==
    VarForEntry(itlist, tlist_member(node, itlist.tlist), newvarno)

\* mutant: the first entry with an equal expression, whatever its tag
search_indexed_tlist_for_sortgroupref_any_tag(node, sortgroupref, itlist, newvarno) ==
    VarForEntry(itlist,
                FirstHit({i \in 1..Len(itlist.tlist) : equal(node, itlist.tlist[i].expr)}),
                newvarno)

search_indexed_tlist_for_sortgroupref(node, sortgroupref, itlist, newvarno) ==
    VarForEntry(itlist,
                FirstHit({i \in 1..Len(itlist.tlist) :
                            /\ itlist.tlist[i].ressortgroupref = sortgroupref
                            /\ equal(node, itlist.tlist[i].expr)}),
                newvarno)

(***************************************************************************)
(* fix_join_expr_mutator and its callers.                                  *)
(***************************************************************************)
fix_join_expr_context(outer_itlist, inner_itlist, acceptable_rel, rtoffset, use_outer, use_inner) ==
    [outer_itlist |-> outer_itlist, inner_itlist |-> inner_itlist,
     acceptable_rel |-> acceptable_rel, rtoffset |-> rtoffset,
     use_outer_tlist_for_matching_nonvars |-> use_outer,
     use_inner_tlist_for_matching_nonvars |-> use_inner]

\* the first of two search results that is not NULL
OrElse(o, i) == IF ~IsA(o, "NULL") THEN o ELSE i

\* mutant: the inner list is consulted before the outer list
fix_join_expr_var_found_inner_first(var, context, o, i) ==
    IF context.inner_itlist.present /\ ~IsA(i, "NULL") THEN WithEff(i, NoEff)
    ELSE IF ~IsA(o, "NULL") THEN WithEff(o, NoEff)
    ELSE IF var.varno = context.acceptable_rel
    THEN WithEff([copyVar(var) EXCEPT
                    !.varnoold = IF @ > 0 THEN @ + context.rtoffset ELSE @], NoEff)
    ELSE WithEff(var, ErrEff)

\* mutant: a Var found in neither list passes through, whatever its relation
fix_join_expr_var_found_lenient(var, context, o, i) ==
    IF ~IsA(o, "NULL") THEN WithEff(o, NoEff)
    ELSE IF context.inner_itlist.present /\ ~IsA(i, "NULL") THEN WithEff(i, NoEff)
    ELSE WithEff([copyVar(var) EXCEPT
                    !.varnoold = IF @ > 0 THEN @ + context.rtoffset ELSE @], NoEff)

\* the Var as found in the outer list, else in the inner list, else as a
\* reference to the acceptable relation
fix_join_expr_var_found(var, context, o, i) ==
    IF ~IsA(o, "NULL") THEN WithEff(o, NoEff)
    ELSE IF context.inner_itlist.present /\ ~IsA(i, "NULL") THEN WithEff(i, NoEff)
    ELSE IF var.varno = context.acceptable_rel
    THEN WithEff([copyVar(var) EXCEPT
                    !.varnoold = IF @ > 0 THEN @ + context.rtoffset ELSE @], NoEff)
    ELSE WithEff(var, ErrEff)   \* "variable not found in subplan target lists"

\* the Var case of fix_join_expr_mutator
fix_join_expr_var(var, context) ==
    fix_join_expr_var_found(
        var, context,
        search_indexed_tlist_for_var(var, context.outer_itlist, OUTER, context.rtoffset),
        search_indexed_tlist_for_var(var, context.inner_itlist, INNER, context.rtoffset))

\* the PlaceHolderVar found in a child's target list (NoNode: not found)
fix_join_expr_phv(phv, context) ==
    OrElse(IF context.outer_itlist.has_ph_vars
           THEN search_indexed_tlist_for_non_var(phv, context.outer_itlist, OUTER)
           ELSE NoNode,
           IF context.inner_itlist.present /\ context.inner_itlist.has_ph_vars
           THEN search_indexed_tlist_for_non_var(phv, context.inner_itlist, INNER)
           ELSE NoNode)

\* the whole-expression match of fix_join_expr_mutator (NoNode: no match)
fix_join_expr_non_var(node, context) ==
    OrElse(IF /\ context.outer_itlist.present
              /\ context.outer_itlist.has_non_vars
              /\ context.use_outer_tlist_for_matching_nonvars
           THEN search_indexed_tlist_for_non_var(node, context.outer_itlist, OUTER)
           ELSE NoNode,
           \* the second, unbraced if is the body of the first
           IF /\ context.inner_itlist.present
              /\ context.inner_itlist.has_non_vars
              /\ context.use_inner_tlist_for_matching_nonvars
              /\ context.inner_itlist.present
              /\ context.inner_itlist.has_non_vars
           THEN search_indexed_tlist_for_non_var(node, context.inner_itlist, INNER)
           ELSE NoNode)

\* the match when there is one, else what the descent gives
MatchOr(m, r) == IF ~IsA(m, "NULL") THEN WithEff(m, NoEff) ELSE r

RECURSIVE fix_join_expr_mutator(_, _)
fix_join_expr_mutator(node, context) ==
    CASE IsA(node, "NULL") -> WithEff(node, NoEff)
      [] IsA(node, "Var") -> fix_join_expr_var(node, context)
      [] IsA(node, "PlaceHolderVar") ->
            MatchOr(fix_join_expr_phv(node, context),
                    fix_join_expr_mutator(node.phexpr, context))
      [] OTHER ->
            MatchOr(fix_join_expr_non_var(node, context),
                    AfterCommon(fix_expr_common(node),
                                expression_tree_mutator(
                                    fix_expr_common_node(node),
                                    LAMBDA n : fix_join_expr_mutator(n, context))))

\* the mutator on a List: it maps over the list's cells
fix_join_expr_list(clauses, context) ==
    ListResult([k \in 1..Len(clauses) |-> fix_join_expr_mutator(clauses[k], context)])

fix_join_expr(glob, clauses, outer_itlist, inner_itlist, acceptable_rel, rtoffset) ==
    fix_join_expr_list(clauses,
        fix_join_expr_context(outer_itlist, inner_itlist, acceptable_rel, rtoffset,
                              TRUE, TRUE))

\* mutant: the Vars of the result relation are indexed like all others
set_returning_clause_references_all_vars(glob, rlist, topplan, resultRelation) ==
    fix_join_expr(glob, rlist, build_tlist_index_other_vars(topplan.targetlist, 0),
                  NoItlist, resultRelation, 0)

set_returning_clause_references(glob, rlist, topplan, resultRelation) ==
    fix_join_expr(glob, rlist,
                  build_tlist_index_other_vars(topplan.targetlist, resultRelation),
                  NoItlist, resultRelation, 0)

fix_child_hashclauses(glob, clauses, outer_itlist, inner_itlist, acceptable_rel, rtoffset, child) ==
    fix_join_expr_mutator(clauses,
        IF child = INNER
        THEN fix_join_expr_context(outer_itlist, inner_itlist, acceptable_rel,
                                   rtoffset, FALSE, TRUE)
        ELSE fix_join_expr_context(outer_itlist, inner_itlist, acceptable_rel,
                                   rtoffset, TRUE, FALSE))

\* one hash clause: both arguments are fixed, then fix_expr_common on the OpExpr
fix_hashclause_args(opexpr, new_outer_arg, new_inner_arg) ==
    WithEff(fix_expr_common_node(
                [opexpr EXCEPT !.args = <<new_outer_arg.node, new_inner_arg.node>>]),
            SeqEff(<<EffOf(new_outer_arg), EffOf(new_inner_arg),
                     fix_expr_common(
                        [opexpr EXCEPT
                            !.args = <<new_outer_arg.node, new_inner_arg.node>>])>>))

fix_hashclause(glob, opexpr, outer_itlist, inner_itlist, rtoffset) ==
    fix_hashclause_args(
        opexpr,
        fix_child_hashclauses(glob, opexpr.args[1], outer_itlist, inner_itlist, 0,
                              rtoffset, OUTER),
        fix_child_hashclauses(glob, opexpr.args[2], outer_itlist, inner_itlist, 0,
                              rtoffset, INNER))

fix_hashclauses(glob, clauses, outer_itlist, inner_itlist, acceptable_rel, rtoffset) ==
    ListResult([k \in 1..Len(clauses) |->
                  fix_hashclause(glob, clauses[k], outer_itlist, inner_itlist, rtoffset)])

(***************************************************************************)
(* fix_upper_expr_mutator and fix_upper_expr.                              *)
(***************************************************************************)
\* the Var of an upper node: it must be in the subplan's list
fix_upper_expr_var(node, newvar) ==
    IF IsA(newvar, "NULL")
    THEN WithEff(node, ErrEff)  \* "variable not found in subplan target list"
    ELSE WithEff(newvar, NoEff)

RECURSIVE fix_upper_expr_mutator(_, _, _)
fix_upper_expr_mutator(node, subplan_itlist, rtoffset) ==
    CASE IsA(node, "NULL") -> WithEff(node, NoEff)
      [] IsA(node, "Var") ->
            fix_upper_expr_var(node,
                               search_indexed_tlist_for_var(node, subplan_itlist, OUTER,
                                                            rtoffset))
      [] IsA(node, "PlaceHolderVar") ->
            MatchOr(IF subplan_itlist.has_ph_vars
                    THEN search_indexed_tlist_for_non_var(node, subplan_itlist, OUTER)
                    ELSE NoNode,
                    fix_upper_expr_mutator(node.phexpr, subplan_itlist, rtoffset))
      [] OTHER ->
            MatchOr(IF subplan_itlist.has_non_vars /\ ~IsA(node, "GroupId")
                    THEN search_indexed_tlist_for_non_var(node, subplan_itlist, OUTER)
                    ELSE NoNode,
                    AfterCommon(fix_expr_common(node),
                                expression_tree_mutator(
                                    fix_expr_common_node(node),
                                    LAMBDA n : fix_upper_expr_mutator(n, subplan_itlist,
                                                                      rtoffset))))

fix_upper_expr(glob, node, subplan_itlist, rtoffset) ==
    fix_upper_expr_mutator(node, subplan_itlist, rtoffset)

\* fix_upper_expr on a List: the mutator maps over the list's cells
fix_upper_list(glob, lst, subplan_itlist, rtoffset) ==
    ListResult([k \in 1..Len(lst) |->
                  fix_upper_expr(glob, lst[k], subplan_itlist, rtoffset)])

(***************************************************************************)
(* Plan nodes.  Every node has the fields of Plan; a node of a given type  *)
(* has, besides, the fields of its C struct that the pass reads or writes. *)
(* id stands for the node's address.                                       *)
(***************************************************************************)
NoPlan == [type |-> "NULL"]

NoFlow == [present |-> FALSE, hashExpr |-> <<>>]

Plan(type, id, targetlist, qual, lefttree, righttree) ==
    [type |-> type, id |-> id, targetlist |-> targetlist, qual |-> qual,
     lefttree |-> lefttree, righttree |-> righttree, initPlan |-> <<>>,
     flow |-> NoFlow]

IsNull(plan) == plan.type = "NULL"

PlanRowMark(rti, prti, rowmarkId) == [rti |-> rti, prti |-> prti, rowmarkId |-> rowmarkId]

\* node types by the case of set_plan_refs that handles them
SimpleScanTypes == {"SeqScan", "AppendOnlyScan", "AOCSScan", "ExternalScan"}
BitmapQualScanTypes == {"BitmapHeapScan", "BitmapAppendOnlyScan", "BitmapTableScan"}
UnguardedScanTypes == {"CteScan", "WorkTableScan", "ForeignScan"}
JoinTypes == {"NestLoop", "MergeJoin", "HashJoin"}
DummyTlistTypes == {"Sort", "Hash", "Material", "Unique", "SetOp"}
BitmapSetTypes == {"BitmapAnd", "BitmapOr"}

(***************************************************************************)
(* PlannerGlobal, and a plan-level result: the node returned, the global   *)
(* state after the call, and whether elog(ERROR) was raised.  glob.log is  *)
(* history: which node's own fields were fixed, in order.                  *)
(***************************************************************************)
ApplyEff(glob, e) ==
    [glob EXCEPT !.relationOids = @ \o e.relationOids,
                 !.invalItems = @ \o e.invalItems]

Logged(glob, what, id) == [glob EXCEPT !.log = Append(@, <<what, id>>)]

St(plan, glob, err) == [plan |-> plan, glob |-> glob, err |-> err]

\* st with field f of the node replaced by the fixer's result r
Fixed(st, f, r) ==
    St([st.plan EXCEPT ![f] = r.node], ApplyEff(st.glob, r), r.err)

ScanFixList(st, f, rtoffset) ==
    IF st.err THEN st ELSE Fixed(st, f, fix_scan_list(st.glob, st.plan[f], rtoffset))

ScanFixExpr(st, f, rtoffset) ==
    IF st.err THEN st ELSE Fixed(st, f, fix_scan_expr(st.glob, st.plan[f], rtoffset))

\* fix_scan_list on a list of lists (values_lists)
ScanFixListList(st, f, rtoffset) ==
    IF st.err THEN st
    ELSE Fixed(st, f,
               ListResult([i \in 1..Len(st.plan[f]) |->
                             fix_scan_list(st.glob, st.plan[f][i], rtoffset)]))

RECURSIVE ScanFixLists(_, _, _)
ScanFixLists(st, fields, rtoffset) ==
    IF fields = <<>> THEN st
    ELSE ScanFixLists(ScanFixList(st, Head(fields), rtoffset), Tail(fields), rtoffset)

UpperFixList(st, f, itlist, rtoffset) ==
    IF st.err THEN st
    ELSE Fixed(st, f, fix_upper_list(st.glob, st.plan[f], itlist, rtoffset))

UpperFixExpr(st, f, itlist, rtoffset) ==
    IF st.err THEN st
    ELSE Fixed(st, f, fix_upper_expr(st.glob, st.plan[f], itlist, rtoffset))

JoinFixList(st, f, outer_itlist, inner_itlist, rtoffset) ==
    IF st.err THEN st
    ELSE Fixed(st, f, fix_join_expr(st.glob, st.plan[f], outer_itlist, inner_itlist,
                                    0, rtoffset))

\* rc->rti += rtoffset; rc->prti += rtoffset, for every row mark of the list
ShiftRowMarks(rowMarks, rtoffset) ==
    [i \in 1..Len(rowMarks) |->
        [rowMarks[i] EXCEPT !.rti = @ + rtoffset, !.prti = @ + rtoffset]]

(***************************************************************************)
(* set_join_references                                                     *)
(***************************************************************************)
HashClausesFix(s3, outer_itlist, inner_itlist, rtoffset) ==
    IF s3.err THEN s3
    ELSE Fixed(s3, "hashclauses",
               fix_hashclauses(s3.glob, s3.plan.hashclauses, outer_itlist,
                               inner_itlist, 0, rtoffset))

\* the clauses of the join type, after the lists every join has
set_join_references_type(s3, outer_itlist, inner_itlist, rtoffset) ==
    CASE s3.plan.type = "NestLoop" ->
            \* nlp->paramval of every NestLoopParam
            UpperFixList(s3, "nestParams", outer_itlist, rtoffset)
      [] s3.plan.type = "MergeJoin" ->
            JoinFixList(s3, "mergeclauses", outer_itlist, inner_itlist, rtoffset)
      [] s3.plan.type = "HashJoin" ->
            JoinFixList(HashClausesFix(s3, outer_itlist, inner_itlist, rtoffset),
                        "hashqualclauses", outer_itlist, inner_itlist, rtoffset)

set_join_references_with(st, outer_itlist, inner_itlist, rtoffset) ==
    set_join_references_type(
        JoinFixList(
            JoinFixList(
                JoinFixList(st, "targetlist", outer_itlist, inner_itlist, rtoffset),
                "qual", outer_itlist, inner_itlist, rtoffset),
            "joinqual", outer_itlist, inner_itlist, rtoffset),
        outer_itlist, inner_itlist, rtoffset)

set_join_references(st, rtoffset) ==
    set_join_references_with(st,
                             build_tlist_index(st.plan.lefttree.targetlist),
                             build_tlist_index(st.plan.righttree.targetlist),
                             rtoffset)

(***************************************************************************)
(* set_upper_references                                                    *)
(***************************************************************************)
\* one entry of the node's target list
set_upper_references_expr(tle, bytag, byexpr) ==
    IF IsA(tle.expr, "GroupId")
    THEN WithEff(tle.expr, NoEff)
    ELSE IF tle.ressortgroupref # 0 /\ ~IsA(tle.expr, "Var") /\ ~IsA(bytag, "NULL")
    THEN WithEff(bytag, NoEff)
    ELSE byexpr

set_upper_references_entry(tle, r) == WithEff([tle EXCEPT !.expr = r.node], EffOf(r))

set_upper_references_tle(glob, tle, subplan_itlist, rtoffset) ==
    set_upper_references_entry(
        tle,
        set_upper_references_expr(
            tle,
            search_indexed_tlist_for_sortgroupref(tle.expr, tle.ressortgroupref,
                                                  subplan_itlist, OUTER),
            fix_upper_expr(glob, tle.expr, subplan_itlist, rtoffset)))

\* the target list entry by entry, then the qual
set_upper_references_tlist(glob, tlist, subplan_itlist, rtoffset) ==
    [i \in 1..Len(tlist) |->
        set_upper_references_tle(glob, tlist[i], subplan_itlist, rtoffset)]

set_upper_references_with(st, subplan_itlist, rtoffset) ==
    UpperFixList(
        Fixed(st, "targetlist",
              ListResult(set_upper_references_tlist(st.glob, st.plan.targetlist,
                                                    subplan_itlist, rtoffset))),
        "qual", subplan_itlist, rtoffset)

set_upper_references(st, rtoffset) ==
    IF st.err THEN st
    ELSE set_upper_references_with(st, build_tlist_index(st.plan.lefttree.targetlist),
                                   rtoffset)

(***************************************************************************)
(* set_dummy_tlist_references                                              *)
(***************************************************************************)
set_dummy_tlist_entry(tle, rtoffset) ==
    LET oldvar == tle.expr
        newvar == makeVar(OUTER, tle.resno)
    IN  [tle EXCEPT !.expr =
            IF IsA(oldvar, "Var")
            THEN [newvar EXCEPT !.varnoold = oldvar.varno + rtoffset,
                                !.varoattno = oldvar.varattno]
            ELSE [newvar EXCEPT !.varnoold = 0, !.varoattno = 0]]

\* mutant: the entries are fixed like a scan's instead of being replaced
set_dummy_tlist_references_shift(plan, rtoffset) ==
    [plan EXCEPT !.targetlist =
        [i \in 1..Len(plan.targetlist) |->
            [plan.targetlist[i] EXCEPT !.expr =
                IF IsA(@, "Var") THEN [@ EXCEPT !.varno = @ + rtoffset] ELSE @]]]

set_dummy_tlist_references(plan, rtoffset) ==
    [plan EXCEPT !.targetlist =
        [i \in 1..Len(plan.targetlist) |->
            set_dummy_tlist_entry(plan.targetlist[i], rtoffset)]]

\* set_dummy_tlist_references as a step on a plan-level result
DummyTlist(st, rtoffset) ==
    IF st.err THEN st
    ELSE St(set_dummy_tlist_references(st.plan, rtoffset), st.glob, FALSE)

(***************************************************************************)
(* trivial_subqueryscan                                                    *)
(***************************************************************************)
\* mutant: a wrapper with a filter is taken for a no-op too
trivial_subqueryscan_ignore_qual(plan) ==
    /\ list_length(plan.targetlist) = list_length(plan.subplan.targetlist)
    /\ \A attrno \in 1..Len(plan.targetlist) :
          LET ptle == plan.targetlist[attrno]
              ctle == plan.subplan.targetlist[attrno]
          IN  /\ ptle.resjunk = ctle.resjunk
              /\ \/ IsA(ptle.expr, "Var") /\ ptle.expr.varattno = attrno
                 \/ IsA(ptle.expr, "Const") /\ equal(ptle.expr, ctle.expr)

\* mutant: any Const in the wrapper's list passes, whatever the subplan has
trivial_subqueryscan_any_const(plan) ==
    /\ plan.qual = <<>>
    /\ list_length(plan.targetlist) = list_length(plan.subplan.targetlist)
    /\ \A attrno \in 1..Len(plan.targetlist) :
          LET ptle == plan.targetlist[attrno]
              ctle == plan.subplan.targetlist[attrno]
          IN  /\ ptle.resjunk = ctle.resjunk
              /\ \/ IsA(ptle.expr, "Var") /\ ptle.expr.varattno = attrno
                 \/ IsA(ptle.expr, "Const")

trivial_subqueryscan(plan) ==
    /\ plan.qual = <<>>
    /\ list_length(plan.targetlist) = list_length(plan.subplan.targetlist)
    /\ \A attrno \in 1..Len(plan.targetlist) :
          LET ptle == plan.targetlist[attrno]
              ctle == plan.subplan.targetlist[attrno]
          IN  /\ ptle.resjunk = ctle.resjunk
              /\ \/ IsA(ptle.expr, "Var") /\ ptle.expr.varattno = attrno
                 \/ IsA(ptle.expr, "Const") /\ equal(ptle.expr, ctle.expr)

(***************************************************************************)
(* cdb_expr_requires_full_eval, flatten_tlist, make_result                 *)
(***************************************************************************)
RECURSIVE expression_returns_set(_)
expression_returns_set(node) ==
    CASE IsA(node, "FuncExpr") ->
            \/ node.funcretset
            \/ \E i \in 1..Len(node.args) : expression_returns_set(node.args[i])
      [] IsA(node, "OpExpr") \/ IsA(node, "Aggref") ->
            \E i \in 1..Len(node.args) : expression_returns_set(node.args[i])
      [] IsA(node, "RelabelType") -> expression_returns_set(node.arg)
      [] IsA(node, "PlaceHolderVar") -> expression_returns_set(node.phexpr)
      [] IsA(node, "TargetEntry") -> expression_returns_set(node.expr)
      [] OTHER -> FALSE

cdb_expr_requires_full_eval(lst) ==
    \E i \in 1..Len(lst) : expression_returns_set(lst[i])

\* the Vars and PlaceHolderVars of an expression, in traversal order
RECURSIVE pull_var_clause(_)
pull_var_clause(node) ==
    CASE IsA(node, "Var") \/ IsA(node, "PlaceHolderVar") -> <<node>>
      [] HasArgs(node) ->
            FlattenSeq([i \in 1..Len(node.args) |-> pull_var_clause(node.args[i])])
      [] IsA(node, "RelabelType") -> pull_var_clause(node.arg)
      [] IsA(node, "TargetEntry") -> pull_var_clause(node.expr)
      [] OTHER -> <<>>

RECURSIVE add_to_flat_tlist(_, _)
add_to_flat_tlist(tlist, exprs) ==
    IF exprs = <<>> THEN tlist
    ELSE add_to_flat_tlist(
            IF tlist_member(Head(exprs), tlist) = 0
            THEN Append(tlist, TargetEntry(Head(exprs), Len(tlist) + 1, "", 0, FALSE))
            ELSE tlist,
            Tail(exprs))

flatten_tlist(tlist) ==
    add_to_flat_tlist(<<>>,
        FlattenSeq([i \in 1..Len(tlist) |-> pull_var_clause(tlist[i])]))

\* the address of the Result node built above the node at address id
ResultIdOf(id) == id + 100

make_result(tlist, resconstantqual, subplan) ==
    Plan("Result", ResultIdOf(subplan.id), tlist, <<>>, subplan, NoPlan)
        @@ [resconstantqual |-> resconstantqual]

(***************************************************************************)
(* The plan-type-specific fixes of set_plan_refs that do not recurse.      *)
(***************************************************************************)
\* mutant: the scanrelid is raised by the offset twice
ShiftScanrelidTwice(st, rtoffset) ==
    IF st.err THEN st
    ELSE St([st.plan EXCEPT !.scanrelid = @ + 2 * rtoffset], st.glob, FALSE)

ShiftScanrelid(st, rtoffset) ==
    IF st.err THEN st
    ELSE St([st.plan EXCEPT !.scanrelid = @ + rtoffset], st.glob, FALSE)

\* case T_Result
ResultFix(st, rtoffset) ==
    ScanFixExpr(
        ScanFixLists(IF ~IsNull(st.plan.lefttree)
                     THEN set_upper_references(st, rtoffset) ELSE st,
                     <<"targetlist", "qual">>, rtoffset),
        "resconstantqual", rtoffset)

WindowAggOffsets(s2, subplan_itlist, rtoffset) ==
    UpperFixExpr(UpperFixExpr(s2, "startOffset", subplan_itlist, rtoffset),
                 "endOffset", subplan_itlist, rtoffset)

WindowAggFrame(s2, rtoffset) ==
    IF s2.err THEN s2
    ELSE IF ~IsA(s2.plan.startOffset, "NULL") \/ ~IsA(s2.plan.endOffset, "NULL")
    THEN WindowAggOffsets(s2, build_tlist_index(s2.plan.lefttree.targetlist), rtoffset)
    ELSE s2

WindowAggTlist(s1, rtoffset) ==
    IF ~s1.err /\ s1.plan.targetlist = <<>> THEN DummyTlist(s1, rtoffset) ELSE s1

\* case T_WindowAgg
WindowAggFix(st, rtoffset) ==
    WindowAggFrame(WindowAggTlist(set_upper_references(st, rtoffset), rtoffset), rtoffset)

PartitionSelectorWith(s1, itl, rtoffset) ==
    UpperFixList(
        UpperFixExpr(
            UpperFixExpr(
                UpperFixExpr(
                    UpperFixList(
                        UpperFixList(s1, "levelEqExpressions", itl, rtoffset),
                        "levelExpressions", itl, rtoffset),
                    "residualPredicate", itl, rtoffset),
                "propagationExpression", itl, rtoffset),
            "printablePredicate", itl, rtoffset),
        "partTabTargetlist", itl, rtoffset)

\* case T_PartitionSelector
PartitionSelectorFix(st, rtoffset) ==
    PartitionSelectorWith(set_upper_references(st, rtoffset),
                          build_tlist_index(st.plan.lefttree.targetlist), rtoffset)

\* case T_Motion
MotionFix(st, rtoffset) ==
    LET childplan_itlist == build_tlist_index(st.plan.lefttree.targetlist)
    IN  DummyTlist(UpperFixList(st, "hashExpr", childplan_itlist, rtoffset), rtoffset)

\* case T_LockRows
LockRowsMarks(s1, rtoffset) ==
    St([s1.plan EXCEPT !.rowMarks = ShiftRowMarks(@, rtoffset)], s1.glob, s1.err)

LockRowsFix(st, rtoffset) == LockRowsMarks(DummyTlist(st, rtoffset), rtoffset)

\* the scans that set_plan_refs fixes itself
ScanOwnFixTypes ==
    SimpleScanTypes \cup UnguardedScanTypes \cup BitmapQualScanTypes
        \cup {"IndexScan", "BitmapIndexScan", "TidScan", "FunctionScan", "ValuesScan"}

\* the node types whose case neither returns early nor recurses into a list
OwnFixTypes ==
    SimpleScanTypes \cup BitmapQualScanTypes \cup UnguardedScanTypes \cup JoinTypes
        \cup DummyTlistTypes
        \cup {"IndexScan", "BitmapIndexScan", "TidScan", "FunctionScan", "ValuesScan",
              "Plan", "ShareInputScan", "PartitionSelector", "LockRows", "Limit", "Agg",
              "WindowAgg", "Result", "Repeat", "RecursiveUnion", "Motion"}

ScanOwnFix(t, scan, rtoffset) ==
    CASE t \in SimpleScanTypes \cup UnguardedScanTypes ->
            ScanFixLists(scan, <<"targetlist", "qual">>, rtoffset)
      [] t = "IndexScan" ->
            ScanFixLists(scan, <<"targetlist", "qual", "indexqual", "indexqualorig",
                                 "indexorderby", "indexorderbyorig">>, rtoffset)
      [] t = "BitmapIndexScan" ->
            ScanFixLists(scan, <<"indexqual", "indexqualorig">>, rtoffset)
      [] t \in BitmapQualScanTypes ->
            ScanFixLists(scan, <<"targetlist", "qual", "bitmapqualorig">>, rtoffset)
      [] t = "TidScan" ->
            ScanFixLists(scan, <<"targetlist", "qual", "tidquals">>, rtoffset)
      [] t = "FunctionScan" ->
            ScanFixExpr(ScanFixLists(scan, <<"targetlist", "qual">>, rtoffset),
                        "funcexpr", rtoffset)
      [] t = "ValuesScan" ->
            ScanFixListList(ScanFixLists(scan, <<"targetlist", "qual">>, rtoffset),
                            "values_lists", rtoffset)

OwnFix(st, rtoffset) ==
    LET t == st.plan.type
    IN  CASE t \in ScanOwnFixTypes -> ScanOwnFix(t, ShiftScanrelid(st, rtoffset), rtoffset)
          [] t \in JoinTypes -> set_join_references(st, rtoffset)
          [] t = "Plan" -> st
          [] t \in DummyTlistTypes \cup {"ShareInputScan", "RecursiveUnion"} ->
                DummyTlist(st, rtoffset)
          [] t = "PartitionSelector" -> PartitionSelectorFix(st, rtoffset)
          [] t = "LockRows" -> LockRowsFix(st, rtoffset)
          [] t = "Limit" ->
                ScanFixExpr(ScanFixExpr(DummyTlist(st, rtoffset), "limitOffset", rtoffset),
                            "limitCount", rtoffset)
          [] t \in {"Agg", "Repeat"} -> set_upper_references(st, rtoffset)
          [] t = "WindowAgg" -> WindowAggFix(st, rtoffset)
          [] t = "Result" -> ResultFix(st, rtoffset)
          [] t = "Motion" -> MotionFix(st, rtoffset)

\* the node types whose case starts with the full-evaluation guard
GuardedTypes ==
    SimpleScanTypes \cup BitmapQualScanTypes \cup JoinTypes
        \cup {"IndexScan", "TidScan", "SubqueryScan", "TableFunctionScan", "FunctionScan",
              "ValuesScan"}

\* the node types whose case recurses into a list of child plans, and the list
ListChildTypes == {"ModifyTable", "Append", "MergeAppend", "BitmapAnd", "BitmapOr"}

ListChildField(t) ==
    CASE t = "ModifyTable" -> "plans"
      [] t = "Append" -> "appendplans"
      [] t = "MergeAppend" -> "mergeplans"
      [] t \in BitmapSetTypes -> "bitmapplans"

\* what the case does before it recurses into the list
ListParentFix(st, rtoffset) ==
    LET t == st.plan.type
    IN  CASE t = "ModifyTable" ->
                St([st.plan EXCEPT
                        !.resultRelations = [i \in 1..Len(@) |-> @[i] + rtoffset],
                        !.rowMarks = ShiftRowMarks(@, rtoffset)],
                   st.glob, FALSE)
          [] t \in {"Append", "MergeAppend"} -> DummyTlist(st, rtoffset)
          [] t \in BitmapSetTypes -> st

\* mutant: the start index is taken after the list was appended
ListParentFinish_index_after(st) ==
    IF st.err \/ st.plan.type # "ModifyTable" THEN st
    ELSE St([st.plan EXCEPT
                !.resultRelIndex =
                    list_length(st.glob.resultRelations \o st.plan.resultRelations)],
            [st.glob EXCEPT !.resultRelations = @ \o st.plan.resultRelations],
            FALSE)

\* what the case does after it recursed into the list
ListParentFinish(st) ==
    IF st.err \/ st.plan.type # "ModifyTable" THEN st
    ELSE St([st.plan EXCEPT !.resultRelIndex = list_length(st.glob.resultRelations)],
            [st.glob EXCEPT !.resultRelations = @ \o st.plan.resultRelations],
            FALSE)

(***************************************************************************)
(* set_plan_references: flattening of the range table and the row marks.   *)
(***************************************************************************)
\* the three discarded fix_scan_expr calls on the copy: what they record
newrte_effects(glob, rte, rtoffset) ==
    SeqEff(<<EffOf(fix_scan_expr(glob, rte.funcexpr, rtoffset)),
             EffOf(fix_scan_list(glob, rte.joinaliasvars, rtoffset)),
             EffsOf([i \in 1..Len(rte.values_lists) |->
                       fix_scan_list(glob, rte.values_lists[i], rtoffset)])>>)

\* the copy as those calls leave it: fix_expr_common worked in place on its nodes
newrte_of(rte) ==
    [rte EXCEPT
        !.funcexpr = fix_scan_expr_walker(@).node,
        !.joinaliasvars = [i \in 1..Len(@) |-> fix_scan_expr_walker(@[i]).node],
        !.values_lists = [i \in 1..Len(@) |->
                            [j \in 1..Len(@[i]) |-> fix_scan_expr_walker(@[i][j]).node]]]

\* mutant: the relation is recorded only when the plan scans it (never, here)
flatten_rte_no_oid_add(st, e, newrte) ==
    IF e.err THEN St(st.plan, ApplyEff(st.glob, e), TRUE)
    ELSE St(st.plan,
            [ApplyEff(st.glob, e) EXCEPT !.finalrtable = Append(@, newrte)],
            FALSE)

flatten_rte_no_oid(st, rte, rtoffset) ==
    IF st.err THEN st
    ELSE flatten_rte_no_oid_add(st, newrte_effects(st.glob, rte, rtoffset),
                                newrte_of(rte))

\* mutant: a sub-select entry is dropped instead of being kept as a placeholder
flatten_rte_drop_subquery_add(st, e, newrte) ==
    IF e.err THEN St(st.plan, ApplyEff(st.glob, e), TRUE)
    ELSE St(st.plan,
            [ApplyEff(st.glob, e) EXCEPT
                !.finalrtable = IF newrte.rtekind = "RTE_SUBQUERY" THEN @
                                ELSE Append(@, newrte),
                !.relationOids = IF newrte.rtekind = "RTE_RELATION"
                                 THEN Append(@, newrte.relid) ELSE @],
            FALSE)

flatten_rte_drop_subquery(st, rte, rtoffset) ==
    IF st.err THEN st
    ELSE flatten_rte_drop_subquery_add(st, newrte_effects(st.glob, rte, rtoffset),
                                       newrte_of(rte))

\* mutant: the copy is put in front of the entries the table has
flatten_rte_add_front(st, e, newrte) ==
    IF e.err THEN St(st.plan, ApplyEff(st.glob, e), TRUE)
    ELSE St(st.plan,
            [ApplyEff(st.glob, e) EXCEPT
                !.finalrtable = <<newrte>> \o @,
                !.relationOids = IF newrte.rtekind = "RTE_RELATION"
                                 THEN Append(@, newrte.relid) ELSE @],
            FALSE)

\* the copy is appended to finalrtable, a plain relation's OID to relationOids
flatten_rte_add(st, e, newrte) ==
    IF e.err THEN St(st.plan, ApplyEff(st.glob, e), TRUE)
    ELSE St(st.plan,
            [ApplyEff(st.glob, e) EXCEPT
                !.finalrtable = Append(@, newrte),
                !.relationOids = IF newrte.rtekind = "RTE_RELATION"
                                 THEN Append(@, newrte.relid) ELSE @],
            FALSE)

\* one iteration of the loop over rtable
flatten_rte(st, rte, rtoffset) ==
    IF st.err THEN st
    ELSE flatten_rte_add(st, newrte_effects(st.glob, rte, rtoffset), newrte_of(rte))

RECURSIVE flatten_rtable(_, _, _)
flatten_rtable(st, rtable, rtoffset) ==
    IF rtable = <<>> THEN st
    ELSE flatten_rtable(flatten_rte(st, Head(rtable), rtoffset), Tail(rtable), rtoffset)

flatten_rowmarks_shift_id(st, rowmarks, rtoffset) ==
    IF st.err THEN st
    ELSE St(st.plan,
            [st.glob EXCEPT
                !.finalrowmarks =
                    @ \o [i \in 1..Len(rowmarks) |->
                            [ShiftRowMarks(rowmarks, rtoffset)[i]
                                EXCEPT !.rowmarkId = @ + rtoffset]]],
            FALSE)

\* the loop over rowmarks
flatten_rowmarks(st, rowmarks, rtoffset) ==
    IF st.err THEN st
    ELSE St(st.plan,
            [st.glob EXCEPT !.finalrowmarks = @ \o ShiftRowMarks(rowmarks, rtoffset)],
            FALSE)

(***************************************************************************)
(* set_plan_refs, set_subqueryscan_references, cdb_insert_result_node and  *)
(* set_plan_references call one another.                                   *)
(***************************************************************************)
RECURSIVE set_plan_refs(_, _, _)
RECURSIVE set_plan_refs_list(_, _, _)
RECURSIVE set_subqueryscan_references(_, _, _)
RECURSIVE cdb_insert_result_node(_, _, _)
RECURSIVE set_plan_references(_, _, _, _)

\* the CDB fix of plan->flow->hashExpr against the node's own target list
FlowFixed(glob, plan, r) ==
    St([plan EXCEPT !.flow.hashExpr = r.node], ApplyEff(glob, r), r.err)

FlowFix(glob, plan, rtoffset) ==
    IF plan.flow.present /\ plan.flow.hashExpr # <<>>
    THEN FlowFixed(glob, plan,
                   fix_upper_list(glob, plan.flow.hashExpr,
                                  build_tlist_index(plan.targetlist), rtoffset))
    ELSE St(plan, glob, FALSE)

\* plan->righttree = set_plan_refs(glob, plan->righttree, rtoffset)
ChildrenDone(st, l, r) ==
    St([st.plan EXCEPT !.lefttree = l.plan, !.righttree = r.plan], r.glob, r.err)

ChildrenRight(st, l, rtoffset) ==
    IF l.err THEN St(st.plan, l.glob, TRUE)
    ELSE ChildrenDone(st, l, set_plan_refs(l.glob, st.plan.righttree, rtoffset))

\* plan->lefttree = set_plan_refs(...); plan->righttree = set_plan_refs(...)
Children(st, rtoffset) ==
    IF st.err THEN st
    ELSE ChildrenRight(st, set_plan_refs(st.glob, st.plan.lefttree, rtoffset), rtoffset)

set_plan_refs_list_done(h, t) == St(<<h.plan>> \o t.plan, t.glob, t.err)

set_plan_refs_list_tail(plans, h, rtoffset) ==
    IF h.err THEN St(plans, h.glob, TRUE)
    ELSE set_plan_refs_list_done(h, set_plan_refs_list(h.glob, Tail(plans), rtoffset))

\* foreach(l, plans) lfirst(l) = set_plan_refs(glob, lfirst(l), rtoffset);
\* the result's plan field is the list
set_plan_refs_list(glob, plans, rtoffset) ==
    IF plans = <<>> THEN St(<<>>, glob, FALSE)
    ELSE set_plan_refs_list_tail(plans, set_plan_refs(glob, Head(plans), rtoffset),
                                 rtoffset)

\* the table function's input is resolved as a plan of its own scope, then
\* the node's scan index and expressions are shifted
TableFunctionScanFix(st, sub, rtoffset) ==
    ScanFixLists(
        ShiftScanrelid(St([st.plan EXCEPT !.lefttree = sub.plan, !.subrtable = <<>>],
                          Logged(sub.glob, "own", st.plan.id), sub.err),
                       rtoffset),
        <<"targetlist", "qual">>, rtoffset)

\* Append, MergeAppend, ModifyTable, BitmapAnd, BitmapOr: the node, then the
\* members of its list
ListChildrenDone(s1, f, c) == St([s1.plan EXCEPT ![f] = c.plan], c.glob, c.err)

ListChildren(s1, f, rtoffset) ==
    ListChildrenDone(s1, f, set_plan_refs_list(s1.glob, s1.plan[f], rtoffset))

\* the node with its own expressions not yet fixed
OwnState(s0) == St(s0.plan, Logged(s0.glob, "own", s0.plan.id), FALSE)

\* mutant: the children are fixed first, then the node against their fixed lists
ChildrenThenOwn_own(c, rtoffset) ==
    IF c.err THEN c ELSE OwnFix(OwnState(c), rtoffset)

ChildrenThenOwn(s0, rtoffset) == ChildrenThenOwn_own(Children(s0, rtoffset), rtoffset)

\* the node's case of the switch, then the recursion at the end of set_plan_refs
OwnThenChildren(s0, rtoffset) == Children(OwnFix(OwnState(s0), rtoffset), rtoffset)

\* mutant: a node of a type without a case is handed back as it came
set_plan_refs_node_skip_unrecognized(s0, rtoffset) ==
    IF s0.err THEN s0
    ELSE IF s0.plan.type \in GuardedTypes
            /\ cdb_expr_requires_full_eval(s0.plan.targetlist)
    THEN cdb_insert_result_node(s0.glob, s0.plan, rtoffset)
    ELSE CASE s0.plan.type = "SubqueryScan" ->
                set_subqueryscan_references(s0.glob, s0.plan, rtoffset)
           [] s0.plan.type = "TableFunctionScan" ->
                TableFunctionScanFix(
                    s0,
                    set_plan_references(s0.glob, s0.plan.lefttree,
                                        s0.plan.subrtable, <<>>),
                    rtoffset)
           [] s0.plan.type \in ListChildTypes ->
                Children(
                    ListParentFinish(
                        ListChildren(ListParentFix(OwnState(s0), rtoffset),
                                     ListChildField(s0.plan.type), rtoffset)),
                    rtoffset)
           [] s0.plan.type \in OwnFixTypes -> OwnThenChildren(s0, rtoffset)
           [] OTHER -> s0

\* the switch on nodeTag(plan), after the flow was fixed
set_plan_refs_node(s0, rtoffset) ==
    IF s0.err THEN s0
    ELSE IF s0.plan.type \in GuardedTypes
            /\ cdb_expr_requires_full_eval(s0.plan.targetlist)
    THEN cdb_insert_result_node(s0.glob, s0.plan, rtoffset)
    ELSE CASE s0.plan.type = "SubqueryScan" ->
                set_subqueryscan_references(s0.glob, s0.plan, rtoffset)
           [] s0.plan.type = "TableFunctionScan" ->
                TableFunctionScanFix(
                    s0,
                    set_plan_references(s0.glob, s0.plan.lefttree,
                                        s0.plan.subrtable, <<>>),
                    rtoffset)
           [] s0.plan.type \in ListChildTypes ->
                Children(
                    ListParentFinish(
                        ListChildren(ListParentFix(OwnState(s0), rtoffset),
                                     ListChildField(s0.plan.type), rtoffset)),
                    rtoffset)
           [] s0.plan.type \in OwnFixTypes -> OwnThenChildren(s0, rtoffset)
           [] OTHER -> St(s0.plan, s0.glob, TRUE)  \* "unrecognized node type"

set_plan_refs(glob, plan, rtoffset) ==
    IF IsNull(plan) THEN St(plan, glob, FALSE)
    ELSE set_plan_refs_node(FlowFix(glob, plan, rtoffset), rtoffset)

\* mutant: the child keeps the names and origins of its own columns
PulledUpWithoutNames(p1, result) ==
    [result EXCEPT !.initPlan = p1.initPlan \o @, !.flow = p1.flow]

\* mutant: the wrapper's initPlans go behind the child's
PulledUpInitPlansBehind(p1, result) ==
    [result EXCEPT
        !.initPlan = @ \o p1.initPlan,
        !.targetlist =
            [i \in 1..Len(@) |->
                IF i <= Len(p1.targetlist)
                THEN [@[i] EXCEPT
                        !.resname = p1.targetlist[i].resname,
                        !.resorigtbl = p1.targetlist[i].resorigtbl,
                        !.resorigcol = p1.targetlist[i].resorigcol]
                ELSE @[i]],
        !.flow = p1.flow]

\* the child plan replaces the wrapper: it takes the wrapper's initPlans, the
\* names and origins of the wrapper's columns, and the wrapper's flow
PulledUp(p1, result) ==
    [result EXCEPT
        !.initPlan = p1.initPlan \o @,
        !.targetlist =
            [i \in 1..Len(@) |->
                IF i <= Len(p1.targetlist)
                THEN [@[i] EXCEPT
                        !.resname = p1.targetlist[i].resname,
                        !.resorigtbl = p1.targetlist[i].resorigtbl,
                        !.resorigcol = p1.targetlist[i].resorigcol]
                ELSE @[i]],
        !.flow = p1.flow]

set_subqueryscan_references_sub(p1, glob, rtoffset) ==
    IF trivial_subqueryscan(p1)
    THEN St(PulledUp(p1, p1.subplan), Logged(glob, "pulled up", p1.id), FALSE)
    ELSE ScanFixLists(
            ShiftScanrelid(St(p1, Logged(glob, "own", p1.id), FALSE), rtoffset),
            <<"targetlist", "qual">>, rtoffset)

\* the wrapper once its subplan came back from set_plan_references
set_subqueryscan_references_resolved(plan, sub, rtoffset) ==
    IF sub.err THEN St(plan, sub.glob, TRUE)
    ELSE set_subqueryscan_references_sub(
            [plan EXCEPT !.subplan = sub.plan, !.subrtable = <<>>, !.subrowmark = <<>>],
            sub.glob, rtoffset)

set_subqueryscan_references(glob, plan, rtoffset) ==
    set_subqueryscan_references_resolved(
        plan,
        set_plan_references(glob, plan.subplan, plan.subrtable, plan.subrowmark),
        rtoffset)

\* the Result comes back with the flow on it and on the node below it
cdb_insert_result_node_flow(plan, r) ==
    IF r.err THEN r
    ELSE St([r.plan EXCEPT
                !.flow = plan.flow,
                !.lefttree = IF ~IsNull(@) /\ @.id = plan.id
                             THEN [@ EXCEPT !.flow = plan.flow] ELSE @],
            r.glob, FALSE)

\* mutant: the guard fires once more, on the Result it has just built
cdb_insert_result_node_rewrapped(glob, plan, rtoffset) ==
    cdb_insert_result_node_flow(
        plan,
        set_plan_refs(glob,
                      make_result(plan.targetlist, NoNode,
                                  make_result(plan.targetlist, NoNode,
                                              [plan EXCEPT
                                                  !.flow = NoFlow,
                                                  !.targetlist =
                                                      flatten_tlist(plan.targetlist)])),
                      rtoffset))

cdb_insert_result_node(glob, plan, rtoffset) ==
    cdb_insert_result_node_flow(
        plan,
        set_plan_refs(glob,
                      make_result(plan.targetlist, NoNode,
                                  [plan EXCEPT
                                      !.flow = NoFlow,
                                      !.targetlist = flatten_tlist(plan.targetlist)]),
                      rtoffset))

set_plan_references_plan(s2, plan, rtoffset) ==
    IF s2.err THEN s2 ELSE set_plan_refs(s2.glob, plan, rtoffset)

set_plan_references_at(glob, plan, rtable, rowmarks, rtoffset) ==
    set_plan_references_plan(
        flatten_rowmarks(flatten_rtable(St(plan, glob, FALSE), rtable, rtoffset),
                         rowmarks, rtoffset),
        plan, rtoffset)

set_plan_references(glob, plan, rtable, rowmarks) ==
    set_plan_references_at(glob, plan, rtable, rowmarks, list_length(glob.finalrtable))

(***************************************************************************)
(* Inputs: plans as the earlier planner phases build them.  Every scope    *)
(* addresses its own range table from 1; a parent's expressions are those  *)
(* of its children's target lists.                                         *)
(***************************************************************************)
(* cdb_extract_plan_dependencies: fix_expr_common on every node of a plan  *)
(* that is already in its final form.                                      *)
(***************************************************************************)
RECURSIVE cdb_extract_plan_dependencies_walker(_)
\* the walker on an expression node
cdb_extract_plan_dependencies_walker(node) ==
    IF IsA(node, "NULL") THEN WithEff(node, NoEff)
    ELSE AfterCommon(fix_expr_common(node),
                     expression_tree_mutator(
                        fix_expr_common_node(node),
                        LAMBDA n : cdb_extract_plan_dependencies_walker(n)))

\* the walker on a List of expressions
cdb_extract_plan_dependencies_list(lst) ==
    ListResult([i \in 1..Len(lst) |-> cdb_extract_plan_dependencies_walker(lst[i])])

\* the fields of a plan node in the order plan_tree_walker visits them: the
\* fields of Plan, then those of the node's own struct
plan_tree_walker_fields ==
    <<"targetlist", "qual", "lefttree", "righttree", "flow",
      "joinqual", "mergeclauses", "hashclauses", "hashqualclauses", "nestParams",
      "indexqual", "indexqualorig", "indexorderby", "indexorderbyorig",
      "bitmapqualorig", "tidquals", "funcexpr", "values_lists", "hashExpr",
      "limitOffset", "limitCount", "resconstantqual", "startOffset", "endOffset",
      "levelEqExpressions", "levelExpressions", "residualPredicate",
      "propagationExpression", "printablePredicate", "partTabTargetlist",
      "subplan", "appendplans", "mergeplans", "plans", "bitmapplans">>

RECURSIVE cdb_extract_plan_dependencies(_, _)

\* st with the child plan (or the list of child plans) in field f walked
plan_tree_walker_child(st, f, c) == St([st.plan EXCEPT ![f] = c.plan], c.glob, c.err)

plan_tree_walker_plans_done(h, t) == St(<<h.plan>> \o t.plan, t.glob, t.err)

RECURSIVE plan_tree_walker_plans(_, _)
plan_tree_walker_plans_tail(plans, h) ==
    IF h.err THEN St(plans, h.glob, TRUE)
    ELSE plan_tree_walker_plans_done(h, plan_tree_walker_plans(h.glob, Tail(plans)))

\* the walker on a List of plans; the result's plan field is the list
plan_tree_walker_plans(glob, plans) ==
    IF plans = <<>> THEN St(<<>>, glob, FALSE)
    ELSE plan_tree_walker_plans_tail(plans,
                                     cdb_extract_plan_dependencies(glob, Head(plans)))

\* the walker on one field of a plan node
plan_tree_walker_field(st, f) ==
    CASE st.err \/ f \notin DOMAIN st.plan -> st
      [] f \in {"lefttree", "righttree", "subplan"} ->
            plan_tree_walker_child(st, f,
                                   cdb_extract_plan_dependencies(st.glob, st.plan[f]))
      [] f \in {"appendplans", "mergeplans", "plans", "bitmapplans"} ->
            plan_tree_walker_child(st, f, plan_tree_walker_plans(st.glob, st.plan[f]))
      [] f = "flow" ->
            FlowFixed(st.glob, st.plan,
                      cdb_extract_plan_dependencies_list(st.plan.flow.hashExpr))
      [] f = "values_lists" ->
            Fixed(st, f,
                  ListResult([i \in 1..Len(st.plan[f]) |->
                                cdb_extract_plan_dependencies_list(st.plan[f][i])]))
      [] f \in {"funcexpr", "limitOffset", "limitCount", "resconstantqual",
                "startOffset", "endOffset", "residualPredicate",
                "propagationExpression", "printablePredicate"} ->
            Fixed(st, f, cdb_extract_plan_dependencies_walker(st.plan[f]))
      [] OTHER -> Fixed(st, f, cdb_extract_plan_dependencies_list(st.plan[f]))

RECURSIVE plan_tree_walker(_, _)
plan_tree_walker(st, fields) ==
    IF fields = <<>> THEN st
    ELSE plan_tree_walker(plan_tree_walker_field(st, Head(fields)), Tail(fields))

\* mutant: the walk also fixes the addressing, as set_plan_refs does
cdb_extract_plan_dependencies_fixing(glob, plan) == set_plan_refs(glob, plan, 0)

cdb_extract_plan_dependencies(glob, plan) ==
    IF IsNull(plan) THEN St(plan, glob, FALSE)
    ELSE plan_tree_walker(St(plan, glob, FALSE),
                          SelectSeq(plan_tree_walker_fields,
                                    LAMBDA f : f \in DOMAIN plan))

(***************************************************************************)
ColName == <<"x", "y", "z">>
AliasName == <<"p", "q", "r">>

V(r, a) == makeVar(r, a)

\* a target list of the expressions, numbered from 1
TL(exprs) == [i \in 1..Len(exprs) |-> TargetEntry(exprs[i], i, ColName[i], 0, FALSE)]

\* the same with the sort/group tags given
TLTagged(exprs, tags) ==
    [i \in 1..Len(exprs) |-> TargetEntry(exprs[i], i, ColName[i], tags[i], FALSE)]

Int4(v) == Const(23, v, FALSE)

Eq(a, b) == OpExpr(96, <<a, b>>)
UserEq(a, b) == OpExpr(20096, <<a, b>>)
Upper(a) == FuncExpr(870, FALSE, <<a>>)
UserFn(a) == FuncExpr(10870, FALSE, <<a>>)
GenerateSeries(a) == FuncExpr(1067, TRUE, <<a>>)
Sum(a) == Aggref(10870, <<a>>)

\* the fields of a scan node besides those of Plan
ScanFields(type, r) ==
    [scanrelid |-> r]
    @@ CASE type = "IndexScan" ->
               [indexqual |-> <<Eq(V(r, 1), Int4(7))>>,
                indexqualorig |-> <<Eq(V(r, 1), Int4(7))>>,
                indexorderby |-> <<>>, indexorderbyorig |-> <<>>]
         [] type = "BitmapIndexScan" ->
               [indexqual |-> <<Eq(V(r, 1), Int4(7))>>,
                indexqualorig |-> <<Eq(V(r, 1), Int4(7))>>]
         [] type \in BitmapQualScanTypes ->
               [bitmapqualorig |-> <<UserEq(V(r, 2), Int4(7))>>]
         [] type = "TidScan" -> [tidquals |-> <<Eq(V(r, 1), Int4(7))>>]
         [] type = "FunctionScan" -> [funcexpr |-> UserFn(Int4(7))]
         [] type = "ValuesScan" -> [values_lists |-> << <<Int4(7), Int4(8)>> >>]
         [] OTHER -> [scanrelid |-> r]

Scan(type, id, r, exprs, qual) ==
    Plan(type, id, TL(exprs), qual, NoPlan, NoPlan) @@ ScanFields(type, r)

JoinFields(type, joinqual) ==
    [joinqual |-> joinqual]
    @@ CASE type = "NestLoop" -> [nestParams |-> <<>>]
         [] type = "MergeJoin" -> [mergeclauses |-> joinqual]
         [] type = "HashJoin" -> [hashclauses |-> joinqual, hashqualclauses |-> joinqual]

Join(type, id, exprs, qual, joinqual, l, r) ==
    Plan(type, id, TL(exprs), qual, l, r) @@ JoinFields(type, joinqual)

\* a node above one child that repeats the child's target list
OverFields(type) ==
    CASE type = "LockRows" -> [rowMarks |-> <<PlanRowMark(1, 1, 1)>>]
      [] type = "Limit" -> [limitOffset |-> NoNode, limitCount |-> Int4(7)]
      [] type = "Motion" -> [hashExpr |-> <<>>]
      [] type = "WindowAgg" -> [startOffset |-> NoNode, endOffset |-> NoNode]
      [] type = "Result" -> [resconstantqual |-> NoNode]
      [] type = "PartitionSelector" ->
            [levelEqExpressions |-> <<>>, levelExpressions |-> <<>>,
             residualPredicate |-> NoNode, propagationExpression |-> NoNode,
             printablePredicate |-> NoNode, partTabTargetlist |-> <<>>]
      [] OTHER -> [type |-> type]

Over(type, id, child) ==
    Plan(type, id, child.targetlist, <<>>, child, NoPlan) @@ OverFields(type)

\* the same with a target list of its own
OverWith(type, id, tlist, qual, child) ==
    Plan(type, id, tlist, qual, child, NoPlan) @@ OverFields(type)

SubqueryScan(id, r, tlist, qual, subplan, subrtable) ==
    Plan("SubqueryScan", id, tlist, qual, NoPlan, NoPlan)
        @@ [scanrelid |-> r, subplan |-> subplan, subrtable |-> subrtable,
            subrowmark |-> <<>>]

\* the wrapper's target list that repeats the n columns of its subplan
WrapperTlist(r, n) ==
    [i \in 1..n |-> [TargetEntry(V(r, i), i, AliasName[i], 0, FALSE)
                        EXCEPT !.resorigtbl = 500, !.resorigcol = i]]

RelRTE(relid) == RangeTblEntry("RTE_RELATION", relid)
SubqueryRTE == RangeTblEntry("RTE_SUBQUERY", InvalidOid)

Input(plan, rtable, rowmarks) == [plan |-> plan, rtable |-> rtable, rowmarks |-> rowmarks]

\* the root scope of most inputs: a at slot 1, b at slot 2
RT == <<RelRTE(500), RelRTE(501)>>

ScanA == Scan("SeqScan", 2, 1, <<V(1, 1), V(1, 2)>>, <<>>)
ScanB == Scan("SeqScan", 3, 2, <<V(2, 1)>>, <<>>)

\* a scan whose target list computes upper(a.x), tagged as sort/group key 1
ScanKey == Plan("SeqScan", 2, TLTagged(<<Upper(V(1, 1)), V(1, 2)>>, <<1, 0>>), <<>>,
                NoPlan, NoPlan) @@ ScanFields("SeqScan", 1)

\* the same with a second, textually equal key tagged 2
ScanKeys == Plan("SeqScan", 2,
                 TLTagged(<<UserFn(V(1, 1)), UserFn(V(1, 1)), V(1, 2)>>, <<1, 2, 0>>),
                 <<>>, NoPlan, NoPlan) @@ ScanFields("SeqScan", 1)

ScanInputs ==
    { Input(Scan(t, 1, 1, exprs, qual), RT, <<>>) :
        t \in {"SeqScan", "IndexScan", "BitmapHeapScan", "TidScan", "FunctionScan",
               "ValuesScan", "CteScan", "ForeignScan"},
        exprs \in {<<V(1, 1), V(1, 2)>>, <<UserFn(V(1, 2))>>,
                   <<GenerateSeries(V(1, 1)), V(1, 2)>>},
        qual \in {<<>>, <<Eq(V(1, 1), Const(REGCLASSOID, 500, FALSE))>>} }
    \cup { Input(Scan("SeqScan", 1, 2, <<V(2, 2)>>, <<>>), RT, <<PlanRowMark(2, 2, 1)>>),
           Input(Scan("SeqScan", 1, 1,
                      <<PlaceHolderVar(1, V(1, 1)), GenerateSeries(V(1, 2))>>, <<>>),
                 RT, <<>>),
           \* literals of type regclass and oid, a NULL::regclass and an integer
           Input(Scan("SeqScan", 1, 1,
                      <<Const(OIDOID, 501, FALSE), Const(REGCLASSOID, 500, FALSE),
                        Const(REGCLASSOID, 500, TRUE)>>,
                      <<Eq(V(1, 1), Const(REGCLASSOID, 500, FALSE)),
                        Eq(V(1, 2), Int4(500))>>),
                 RT, <<>>),
           Input(Plan("BitmapIndexScan", 1, <<>>, <<>>, NoPlan, NoPlan)
                    @@ ScanFields("BitmapIndexScan", 1), RT, <<>>) }

JoinInputs ==
    { Input(Join(t, 1, exprs, <<Eq(V(1, 1), V(2, 1))>>, <<Eq(V(1, 2), V(2, 1))>>, l, ScanB),
            RT, <<>>) :
        t \in JoinTypes,
        exprs \in {<<V(1, 1), V(2, 1)>>, <<V(2, 1), V(1, 2), V(1, 1)>>,
                   <<GenerateSeries(V(1, 2)), V(2, 1)>>},
        l \in {ScanA, Over("Sort", 2, Scan("SeqScan", 4, 1, <<V(1, 1), V(1, 2)>>, <<>>))} }

\* a scope whose third entry is the join of a and b, with its alias Vars; a
\* scope whose second entry is a function call, or a VALUES list
JoinRTE ==
    [RangeTblEntry("RTE_JOIN", InvalidOid) EXCEPT !.joinaliasvars = <<V(1, 1), V(2, 1)>>]

FunctionRTE ==
    [RangeTblEntry("RTE_FUNCTION", InvalidOid) EXCEPT !.funcexpr = UserFn(Int4(7))]

ValuesRTE ==
    [RangeTblEntry("RTE_VALUES", InvalidOid) EXCEPT
        !.values_lists = <<<<Int4(7), Const(REGCLASSOID, 501, FALSE)>>>>]

SubstructureInputs ==
    { Input(Join("NestLoop", 1, <<V(1, 1), V(2, 1)>>, <<>>, <<>>, ScanA, ScanB),
            <<RelRTE(500), RelRTE(501), JoinRTE>>, <<>>),
      Input(Scan("FunctionScan", 1, 2, <<V(2, 1)>>, <<>>),
            <<RelRTE(500), FunctionRTE>>, <<>>),
      Input(Scan("ValuesScan", 1, 2, <<V(2, 1), V(2, 2)>>, <<>>),
            <<RelRTE(500), ValuesRTE>>, <<>>) }

PassthroughTypes ==
    DummyTlistTypes \cup {"Limit", "LockRows", "ShareInputScan", "RecursiveUnion", "Motion"}

PassthroughInputs ==
    { Input(Over(t, 1, c), RT, <<>>) :
        t \in PassthroughTypes,
        c \in {ScanA, ScanKey, Join("NestLoop", 2, <<V(2, 1), V(1, 1)>>, <<>>, <<>>,
                                    Scan("SeqScan", 4, 1, <<V(1, 1)>>, <<>>),
                                    Scan("SeqScan", 5, 2, <<V(2, 1)>>, <<>>))} }
    \cup { Input(Plan("Append", 1, ScanA.targetlist, <<>>, NoPlan, NoPlan)
                    @@ [appendplans |->
                            <<ScanA, Scan("SeqScan", 3, 2, <<V(2, 1), V(2, 2)>>, <<>>)>>],
                 RT, <<>>),
           Input(Plan("MergeAppend", 1, ScanA.targetlist, <<>>, NoPlan, NoPlan)
                    @@ [mergeplans |->
                            <<ScanA, Scan("SeqScan", 3, 2, <<V(2, 1), V(2, 2)>>, <<>>)>>],
                 RT, <<>>) }
    \cup { Input([Over("Motion", 1, ScanA) EXCEPT !.hashExpr = <<V(1, 2)>>], RT, <<>>),
           Input([Over("Sort", 1, ScanA) EXCEPT
                    !.flow = [present |-> TRUE, hashExpr |-> <<V(1, 2)>>]], RT, <<>>),
           Input(Plan("BitmapOr", 1, <<>>, <<>>, NoPlan, NoPlan)
                    @@ [bitmapplans |-> <<Plan("BitmapIndexScan", 2, <<>>, <<>>, NoPlan, NoPlan)
                                            @@ ScanFields("BitmapIndexScan", 1)>>],
                 RT, <<>>) }

\* a passthrough node that carries a residual filter
FilteredPassthroughInputs ==
    { Input(OverWith(t, 1, ScanA.targetlist, <<Eq(V(1, 1), Int4(7))>>, ScanA), RT, <<>>) :
        t \in {"Sort", "ShareInputScan", "Limit"} }

UpperTypes == {"Agg", "WindowAgg", "Result", "Repeat", "PartitionSelector"}

UpperInputs ==
    { Input(OverWith(t, 1, tl, qual, ScanKey), RT, <<>>) :
        t \in UpperTypes,
        tl \in {TLTagged(<<Upper(V(1, 1)), Sum(V(1, 2)), Upper(V(1, 1))>>, <<1, 0, 0>>),
                TLTagged(<<V(1, 2), Eq(Upper(V(1, 1)), Int4(7))>>, <<0, 0>>)},
        qual \in {<<>>, <<Eq(Upper(V(1, 1)), V(1, 2))>>} }
    \cup { Input(OverWith(t, 1, tl, <<>>, ScanKeys), RT, <<>>) :
            t \in {"Agg", "Result"},
            tl \in {TLTagged(<<UserFn(V(1, 1)), UserFn(V(1, 1)), UserFn(V(1, 1))>>, <<2, 0, 1>>),
                    TLTagged(<<UserFn(V(1, 1)), V(1, 2)>>, <<3, 0>>)} }
    \cup { Input(OverWith(t, 1, TL(<<V(1, 2), V(1, 1)>>), <<>>, ScanA), RT, <<>>) :
            t \in UpperTypes }
    \cup { Input(Plan("Result", 1, TL(exprs), <<>>, NoPlan, NoPlan)
                    @@ [resconstantqual |-> Eq(Int4(7), Int4(8))], RT, <<>>) :
            exprs \in {<<Int4(7)>>, <<Const(OIDOID, 501, FALSE), UserFn(Int4(7))>>} }

\* the scope of a sub-select: c at slot 1, d at slot 2
SubRT == <<RelRTE(502), RelRTE(503)>>

\* the root scope around a sub-select: the sub-select at slot 1, a at slot 2
WrapRT == <<SubqueryRTE, RelRTE(500)>>

ScanC(id) == Scan("SeqScan", id, 1, <<V(1, 1), V(1, 2)>>, <<>>)

Subplans(id) ==
    { ScanC(id),
      [ScanC(id) EXCEPT !.initPlan = <<7>>],
      Over("Sort", id, ScanC(2 * id)),
      Over("Result", id, ScanC(2 * id)),
      Scan("SeqScan", id, 2, <<V(2, 1), GenerateSeries(V(2, 2))>>, <<>>),
      Scan("SeqScan", id, 1, <<V(1, 1), Int4(7)>>, <<>>),
      \* SELECT x, 7 FROM c ORDER BY x
      Over("Sort", id, Scan("SeqScan", 2 * id, 1, <<V(1, 1), Int4(7)>>, <<>>)),
      Join("HashJoin", id, <<V(1, 1), V(2, 1)>>, <<>>, <<Eq(V(1, 1), V(2, 1))>>,
           ScanC(2 * id), Scan("SeqScan", 2 * id + 1, 2, <<V(2, 1)>>, <<>>)) }

\* wrappers at slot 1 of their scope, over a subplan whose list has two columns
Wrappers(id, subplan) ==
    { SubqueryScan(id, 1, WrapperTlist(1, 2), <<>>, subplan, SubRT),
      [SubqueryScan(id, 1, WrapperTlist(1, 2), <<>>, subplan, SubRT)
          EXCEPT !.initPlan = <<9>>],
      SubqueryScan(id, 1, WrapperTlist(1, 2), <<Eq(V(1, 1), Int4(7))>>, subplan, SubRT),
      SubqueryScan(id, 1, TL(<<V(1, 2), V(1, 1)>>), <<>>, subplan, SubRT),
      SubqueryScan(id, 1, TL(<<V(1, 1), Int4(7)>>), <<>>, subplan, SubRT),
      SubqueryScan(id, 1, TL(<<V(1, 1)>>), <<>>, subplan, SubRT),
      \* SELECT s.x, generate_series(1, s.y) FROM (...) s, and with the columns
      \* the other way round
      SubqueryScan(id, 1, TL(<<V(1, 1), GenerateSeries(V(1, 2))>>), <<>>, subplan, SubRT),
      SubqueryScan(id, 1, TL(<<GenerateSeries(V(1, 2)), V(1, 1)>>), <<>>, subplan, SubRT) }

WrapperInputs ==
    { Input(w, WrapRT, <<>>) : w \in UNION {Wrappers(1, sp) : sp \in Subplans(2)} }
    \cup { Input(Over(t, 1, w), WrapRT, <<>>) :
            t \in {"Sort", "Agg"},
            w \in UNION {Wrappers(2, sp) : sp \in {ScanC(4), Over("Result", 4, ScanC(8))}} }
    \cup { Input(Join("NestLoop", 1, <<V(1, 1), V(2, 2)>>, <<Eq(V(1, 2), V(2, 1))>>, <<>>,
                      w, Scan("SeqScan", 3, 2, <<V(2, 1), V(2, 2)>>, <<>>)),
                 WrapRT, <<>>) :
            w \in Wrappers(2, ScanC(4)) }
    \* a sub-select inside a sub-select
    \cup { Input(SubqueryScan(1, 1, WrapperTlist(1, 2), <<>>, w,
                              <<SubqueryRTE, RelRTE(504)>>), WrapRT, <<>>) :
            w \in Wrappers(2, ScanC(4)) }
    \* SELECT ... FROM (SELECT ... FOR UPDATE) s, a FOR SHARE: row marks in
    \* both scopes
    \cup { Input([w EXCEPT !.subrowmark = <<PlanRowMark(2, 2, 3), PlanRowMark(1, 1, 4)>>],
                 WrapRT, <<PlanRowMark(2, 2, 1), PlanRowMark(1, 2, 2)>>) :
            w \in Wrappers(1, ScanC(2)) }

TableFunctionScan(id, tlist, child, subrtable) ==
    Plan("TableFunctionScan", id, tlist, <<>>, child, NoPlan)
        @@ [scanrelid |-> 1, subrtable |-> subrtable]

TableFunctionInputs ==
    { Input(TableFunctionScan(1, TL(exprs), c, SubRT),
            <<RangeTblEntry("RTE_TABLEFUNCTION", InvalidOid), RelRTE(500)>>, <<>>) :
        exprs \in {<<V(1, 1), V(1, 2)>>, <<V(1, 1), GenerateSeries(V(1, 2))>>},
        c \in {ScanC(2), Over("Sort", 2, ScanC(4))} }

ModifyTable(id, plans, resultRelations) ==
    Plan("ModifyTable", id, <<>>, <<>>, NoPlan, NoPlan)
        @@ [plans |-> plans, resultRelations |-> resultRelations,
            rowMarks |-> <<PlanRowMark(2, 2, 1)>>, resultRelIndex |-> 0]

ModifyTableInputs ==
    { Input(ModifyTable(1, <<ScanA>>, <<1>>), RT, <<>>),
      Input(ModifyTable(1, <<ScanA, ScanB>>, <<1, 2>>), RT, <<>>),
      \* UPDATE a ... FROM b: the subplan joins the result relation a to b
      Input(ModifyTable(1, <<Join("NestLoop", 2, <<V(1, 1), V(2, 1)>>, <<>>, <<>>,
                                  Scan("SeqScan", 4, 1, <<V(1, 1)>>, <<>>),
                                  Scan("SeqScan", 5, 2, <<V(2, 1)>>, <<>>))>>, <<1>>),
            RT, <<>>),
      Input(Plan("Append", 1, ScanA.targetlist, <<>>, NoPlan, NoPlan)
               @@ [appendplans |-> <<ModifyTable(4, <<ScanA>>, <<1>>),
                                     ModifyTable(5, <<ScanB>>, <<2>>)>>],
            RT, <<>>) }

\* plans an earlier phase got wrong
BrokenInputs ==
    { Input(Plan("Invalid", 1, ScanA.targetlist, <<>>, ScanA, NoPlan), RT, <<>>),
      Input(Over("Sort", 1, Plan("Invalid", 2, ScanA.targetlist, <<>>, NoPlan, NoPlan)),
            RT, <<>>),
      Input(OverWith("Agg", 1, TL(<<V(2, 1)>>), <<>>, ScanA), RT, <<>>),
      Input(Join("NestLoop", 1, <<V(1, 1), V(2, 2)>>, <<>>, <<>>, ScanA, ScanB), RT, <<>>),
      Input(Scan("SeqScan", 1, 1, <<FuncExpr(10999, FALSE, <<V(1, 1)>>)>>, <<>>), RT, <<>>),
      Input(Plan("Append", 1, ScanA.targetlist, <<>>, NoPlan, NoPlan)
               @@ [appendplans |->
                      <<ScanA, Plan("Invalid", 3, ScanA.targetlist, <<>>, NoPlan, NoPlan)>>],
            RT, <<>>),
      Input(SubqueryScan(1, 1, WrapperTlist(1, 2), <<>>,
                         Plan("Invalid", 2, ScanC(4).targetlist, <<>>, NoPlan, NoPlan),
                         SubRT),
            WrapRT, <<>>),
      \* the bare Plan node that stands in for a join's outer subplan
      Input(Join("HashJoin", 1, <<V(1, 1), V(2, 1)>>, <<>>, <<Eq(V(1, 1), V(2, 1))>>,
                 Plan("Plan", 2, ScanA.targetlist, <<>>, NoPlan, NoPlan), ScanB),
            RT, <<>>) }

\* a with two pseudo columns: attribute -9 is defined as userfn(a.x), -10 as 7
PseudoRT ==
    <<[RelRTE(500) EXCEPT !.pseudocols = <<UserFn(V(1, 1)), Int4(7)>>], RelRTE(501)>>

PseudoColumnInputs ==
    { Input(Scan("SeqScan", 1, 1, exprs, qual), PseudoRT, <<>>) :
        exprs \in {<<V(1, FirstLowInvalidHeapAttributeNumber), V(1, 2)>>,
                   <<V(1, FirstLowInvalidHeapAttributeNumber - 1)>>},
        qual \in {<<>>, <<Eq(V(1, FirstLowInvalidHeapAttributeNumber), V(1, 2))>>} }

Inputs ==
    ScanInputs \cup PseudoColumnInputs \cup JoinInputs \cup SubstructureInputs
        \cup PassthroughInputs \cup FilteredPassthroughInputs
        \cup UpperInputs \cup WrapperInputs \cup TableFunctionInputs
        \cup ModifyTableInputs \cup BrokenInputs

\* the RETURNING lists of a ModifyTable's first result relation (empty: the
\* statement has no RETURNING clause)
ReturningLists ==
    {<<>>} \cup {TL(exprs) : exprs \in {<<V(1, 1), V(2, 1)>>, <<V(1, 2), UserFn(V(2, 1))>>,
                                        <<V(2, 2)>>, <<V(2, 1), V(1, 1), V(1, 2)>>}}

\* PlannerGlobal after k range-table entries of plans resolved earlier
PriorGlob(k) ==
    [finalrtable |-> [i \in 1..k |-> RelRTE(400 + i)],
     finalrowmarks |-> [i \in 1..k |-> PlanRowMark(i, i, 10 + i)],
     relationOids |-> [i \in 1..k |-> 400 + i],
     invalItems |-> <<>>,
     resultRelations |-> [i \in 1..k |-> i],
     log |-> <<>>]

\* the functions the inlining code may have removed from the tree
InlinedFuncs == {870, 10870, 10999}

(***************************************************************************)
(* The nodes of a plan tree, and the variable references of its           *)
(* expressions.                                                            *)
(***************************************************************************)
\* the fields of a plan node that hold a list of expressions
ExprListFields ==
    {"targetlist", "qual", "joinqual", "mergeclauses", "hashclauses",
     "hashqualclauses", "nestParams", "indexqual", "indexqualorig", "indexorderby",
     "indexorderbyorig", "bitmapqualorig", "tidquals", "hashExpr",
     "levelEqExpressions", "levelExpressions", "partTabTargetlist"}

\* the fields that hold one expression
ExprFields ==
    {"funcexpr", "limitOffset", "limitCount", "resconstantqual", "startOffset",
     "endOffset", "residualPredicate", "propagationExpression", "printablePredicate"}

\* the fields that hold a list of child plans
PlanListFields == {"appendplans", "mergeplans", "plans", "bitmapplans"}

\* the fields that hold one child plan
PlanFields == {"lefttree", "righttree", "subplan"}

RECURSIVE VarsOf(_)
\* the Var nodes of an expression tree
VarsOf(node) ==
    CASE IsA(node, "Var") -> {node}
      [] HasArgs(node) -> UNION {VarsOf(node.args[i]) : i \in 1..Len(node.args)}
      [] IsA(node, "RelabelType") -> VarsOf(node.arg)
      [] IsA(node, "TargetEntry") -> VarsOf(node.expr)
      [] IsA(node, "PlaceHolderVar") -> VarsOf(node.phexpr)
      [] OTHER -> {}

VarsOfList(lst) == UNION {VarsOf(lst[i]) : i \in 1..Len(lst)}

\* the Var nodes of the expressions of one plan node
NodeVars(p) ==
    UNION ({VarsOfList(p[f]) : f \in ExprListFields \cap DOMAIN p}
           \cup {VarsOf(p[f]) : f \in ExprFields \cap DOMAIN p}
           \cup {VarsOfList(p.flow.hashExpr)}
           \cup (IF "values_lists" \in DOMAIN p
                 THEN {VarsOfList(p.values_lists[i]) : i \in 1..Len(p.values_lists)}
                 ELSE {}))

RECURSIVE NodesOfPlan(_)
\* the nodes of a plan tree
NodesOfPlan(p) ==
    IF IsNull(p) THEN {}
    ELSE {p}
         \cup UNION {NodesOfPlan(p[f]) : f \in PlanFields \cap DOMAIN p}
         \cup UNION {UNION {NodesOfPlan(p[f][i]) : i \in 1..Len(p[f])} :
                        f \in PlanListFields \cap DOMAIN p}

\* the Var nodes of every expression of every node of a plan tree
PlanVars(p) == UNION {NodeVars(n) : n \in NodesOfPlan(p)}

\* a list of expressions without the opfuncid of its OpExprs, which
\* fix_expr_common may fill in where it stands
StripOpfuncids(lst) == [i \in 1..Len(lst) |-> StripOpfuncid(lst[i])]

\* the lists of expressions of the nodes of a plan tree, by node address:
\* the planner holds references of its own to them
PlannerClauses(p) ==
    [id \in {n.id : n \in NodesOfPlan(p)} |->
        [f \in ExprListFields \cap DOMAIN (CHOOSE n \in NodesOfPlan(p) : n.id = id) |->
            StripOpfuncids((CHOOSE n \in NodesOfPlan(p) : n.id = id)[f])]]

\* the hash joins of a tree
HashJoins(p) == {m \in NodesOfPlan(p) : m.type = "HashJoin"}

\* those lists after a call that returned the tree out: fix_hashclauses has
\* put the fixed arguments into the OpExprs of the list it was given
ClausesAfter(cl, out) ==
    [id \in DOMAIN cl |->
        IF id \in {m.id : m \in HashJoins(out)}
        THEN [cl[id] EXCEPT
                !.hashclauses =
                    StripOpfuncids((CHOOSE m \in HashJoins(out) : m.id = id).hashclauses)]
        ELSE cl[id]]

(***************************************************************************)
(* The state machine: one planner run.                                     *)
(***************************************************************************)
VARIABLES
    input,  \* what the planner hands to set_plan_references
    glob,   \* PlannerGlobal
    plan,   \* the plan tree, as the last call returned it
    pc,     \* "start", "resolved", "again", "extracted", "error"
    call,   \* the last call made
    prev,   \* plan and glob before the last call
    returning,  \* the RETURNING list: as parsed (orig), as it is now (rlist)
    clauses     \* the expression lists the planner built, as they are now

vars == <<input, glob, plan, pc, call, prev, returning, clauses>>

NoCall == [op |-> "none", funcid |-> 0]

Init ==
    /\ input \in Inputs
    /\ \E k \in 0..MaxPriorRtable : glob = PriorGlob(k)
    /\ plan = input.plan
    /\ pc = "start"
    /\ call = NoCall
    /\ prev = [plan |-> input.plan, glob |-> glob]
    /\ \E rl \in (IF input.plan.type = "ModifyTable" THEN ReturningLists ELSE {<<>>}) :
           returning = [orig |-> rl, rlist |-> rl, fixed |-> FALSE]
    /\ clauses = PlannerClauses(input.plan)

\* the function-inlining code records a function it removed from the tree
RecordPlanFunctionDependency(funcid) ==
    /\ pc = "start"
    /\ Len(glob.invalItems) < MaxInlined
    /\ \E e \in {record_plan_function_dependency(funcid)} :
           /\ glob' = ApplyEff(glob, e)
           /\ pc' = IF e.err THEN "error" ELSE "start"
    /\ call' = [op |-> "record_plan_function_dependency", funcid |-> funcid]
    /\ prev' = [plan |-> plan, glob |-> glob]
    /\ UNCHANGED <<input, plan, returning, clauses>>

\* planner.c fixes the RETURNING list against the top subplan, before it
\* hands the plan to set_plan_references
SetReturningClauseReferences ==
    /\ pc = "start"
    /\ returning.rlist # <<>>
    /\ ~returning.fixed
    /\ \E r \in {set_returning_clause_references(glob, returning.rlist, plan.plans[1],
                                                  plan.resultRelations[1])} :
           /\ returning' = [returning EXCEPT !.rlist = r.node, !.fixed = TRUE]
           /\ glob' = ApplyEff(glob, r)
           /\ pc' = IF r.err THEN "error" ELSE "start"
    /\ call' = [op |-> "set_returning_clause_references", funcid |-> 0]
    /\ prev' = [plan |-> plan, glob |-> glob]
    /\ UNCHANGED <<input, plan, clauses>>

\* the planner's call of set_plan_references on the finished plan
SetPlanReferences ==
    /\ pc = "start"
    /\ returning.rlist = <<>> \/ returning.fixed
    /\ \E r \in {set_plan_references(glob, plan, input.rtable, input.rowmarks)} :
           /\ glob' = r.glob
           /\ plan' = r.plan
           /\ clauses' = IF r.err THEN clauses ELSE ClausesAfter(clauses, r.plan)
           /\ pc' = IF r.err THEN "error" ELSE "resolved"
    /\ call' = [op |-> "set_plan_references", funcid |-> 0]
    /\ prev' = [plan |-> plan, glob |-> glob]
    /\ UNCHANGED <<input, returning>>

\* the dispatcher run once more, with offset 0, on the plan it returned
SetPlanRefsAgain ==
    /\ pc = "resolved"
    /\ \E r \in {set_plan_refs(glob, plan, 0)} :
           /\ glob' = r.glob
           /\ plan' = r.plan
           /\ clauses' = IF r.err THEN clauses ELSE ClausesAfter(clauses, r.plan)
           /\ pc' = IF r.err THEN "error" ELSE "again"
    /\ call' = [op |-> "set_plan_refs", funcid |-> 0]
    /\ prev' = [plan |-> plan, glob |-> glob]
    /\ UNCHANGED <<input, returning>>

\* the dependencies of a plan in its final form are collected once more, as
\* for a plan that did not come through set_plan_references
CdbExtractPlanDependencies ==
    /\ pc = "resolved"
    /\ \E r \in {cdb_extract_plan_dependencies(glob, plan)} :
           /\ glob' = r.glob
           /\ plan' = r.plan
           /\ pc' = IF r.err THEN "error" ELSE "extracted"
    /\ call' = [op |-> "cdb_extract_plan_dependencies", funcid |-> 0]
    /\ prev' = [plan |-> plan, glob |-> glob]
    /\ UNCHANGED <<input, returning, clauses>>

Next ==
    \/ \E funcid \in InlinedFuncs : RecordPlanFunctionDependency(funcid)
    \/ SetReturningClauseReferences
    \/ SetPlanReferences
    \/ SetPlanRefsAgain
    \/ CdbExtractPlanDependencies

Spec == Init /\ [][Next]_vars

(***************************************************************************)
(* fix_join_expr and fix_hashclauses on their own: a list of clauses, the  *)
(* target lists of the two children, the acceptable relation and the       *)
(* offset, in the two forms the callers use: set_join_references indexes   *)
(* both children's lists and accepts no relation; for a RETURNING list     *)
(* set_returning_clause_references indexes the top subplan's Vars of the   *)
(* other relations, has no inner list and accepts the result relation.     *)
(***************************************************************************)
\* a built-in function of two arguments
Fn2(a, b) == FuncExpr(870, FALSE, <<a, b>>)

FixerVars == {V(r, a) : r \in 1..MaxRel, a \in 1..MaxAttno}

FixerExprs ==
    FixerVars \cup {Fn2(v, Int4(4)) : v \in FixerVars}
              \cup {PlaceHolderVar(1, V(1, 2)), Int4(4)}

OuterLists ==
    {TL(exprs) : exprs \in {<<V(1, 1), V(1, 2)>>, <<V(1, 2), Int4(4)>>,
                            <<V(1, 1), PlaceHolderVar(1, V(1, 2))>>,
                            <<V(2, 1), V(1, 1)>>}}

InnerLists ==
    {TL(exprs) : exprs \in {<<V(2, 1)>>, <<V(2, 1), Int4(4)>>, <<V(1, 1), V(2, 1)>>,
                            <<V(2, 2), PlaceHolderVar(1, V(1, 2))>>,
                            <<V(2, 1), Fn2(V(1, 1), Int4(4))>>}}

FixerInput(shape, cl, outer, inner, acceptable_rel, rtoffset) ==
    [shape |-> shape, clauses |-> cl, outer |-> outer, inner |-> inner,
     acceptable_rel |-> acceptable_rel, rtoffset |-> rtoffset]

FixerInputs ==
    { FixerInput("join", <<Eq(a, b)>>, outer, inner, 0, rtoffset) :
        a \in FixerExprs, b \in FixerExprs, outer \in OuterLists, inner \in InnerLists,
        rtoffset \in 0..MaxPriorRtable }
    \cup { FixerInput("returning", TL(<<a>>), outer, <<>>, rel, 0) :
            a \in FixerExprs, outer \in OuterLists, rel \in 1..MaxRel }

FixerOuter(in) ==
    IF in.shape = "join" THEN build_tlist_index(in.outer)
    ELSE build_tlist_index_other_vars(in.outer, in.acceptable_rel)

FixerInner(in) == IF in.shape = "join" THEN build_tlist_index(in.inner) ELSE NoItlist

FixerInit ==
    /\ input \in FixerInputs
    /\ glob = PriorGlob(0)
    /\ plan = NoPlan
    /\ pc = "start"
    /\ call = NoCall
    /\ prev = [plan |-> NoPlan, glob |-> glob]
    /\ returning = [orig |-> input.clauses, rlist |-> input.clauses, fixed |-> FALSE]
    /\ clauses = input.clauses

\* the list comes back as a new list
FixJoinExpr ==
    /\ pc = "start"
    /\ \E r \in {fix_join_expr(glob, input.clauses, FixerOuter(input), FixerInner(input),
                               input.acceptable_rel, input.rtoffset)} :
           /\ returning' = [returning EXCEPT !.rlist = r.node, !.fixed = TRUE]
           /\ glob' = ApplyEff(glob, r)
           /\ pc' = IF r.err THEN "error" ELSE "fixed"
    /\ call' = [op |-> "fix_join_expr", funcid |-> 0]
    /\ prev' = [plan |-> plan, glob |-> glob]
    /\ UNCHANGED <<input, plan, clauses>>

\* the clauses of the caller's list get their new arguments where they stand
FixHashclauses ==
    /\ pc = "start"
    /\ input.shape = "join"
    /\ \E r \in {fix_hashclauses(glob, input.clauses, FixerOuter(input), FixerInner(input),
                                 0, input.rtoffset)} :
           /\ returning' = [returning EXCEPT !.rlist = r.node, !.fixed = TRUE]
           /\ clauses' = IF r.err THEN clauses ELSE r.node
           /\ glob' = ApplyEff(glob, r)
           /\ pc' = IF r.err THEN "error" ELSE "hashed"
    /\ call' = [op |-> "fix_hashclauses", funcid |-> 0]
    /\ prev' = [plan |-> plan, glob |-> glob]
    /\ UNCHANGED <<input, plan>>

FixerNext == FixJoinExpr \/ FixHashclauses

SpecFixer == FixerInit /\ [][FixerNext]_vars

\* the call of set_plan_references returned a plan
Resolved == pc = "resolved"

\* the call of set_plan_references has just raised elog(ERROR)
Failed == pc = "error" /\ call.op = "set_plan_references"

Range(s) == {s[i] : i \in 1..Len(s)}

\* the node of the planner's tree that has the given address
InputNode(id) == CHOOSE m \in NodesOfPlan(input.plan) : m.id = id

InInput(id) == \E m \in NodesOfPlan(input.plan) : m.id = id

\* the node of the returned tree that has the given address
InOutput(id) == \E n \in NodesOfPlan(plan) : n.id = id

OutputNode(id) == CHOOSE n \in NodesOfPlan(plan) : n.id = id

\* the nodes of the planner's tree that bring a range table of their own
SubScopes == {n \in NodesOfPlan(input.plan) : "subrtable" \in DOMAIN n}

RECURSIVE SumOfLengths(_)
\* the sum of the lengths of the range tables of a set of nodes
SumOfLengths(S) ==
    IF S = {} THEN 0
    ELSE LET n == CHOOSE x \in S : TRUE
         IN  Len(n.subrtable) + SumOfLengths(S \ {n})

\* the range tables that the call flattens: the root's, and each sub-select's
FlattenedScopes == {input.rtable} \cup {n.subrtable : n \in SubScopes}

\* a wrapper was eliminated during the call
SomePulledUp(log) == \E i \in 1..Len(log) : log[i][1] = "pulled up"

(***************************************************************************)
(* C1.  After set_plan_references returned a plan, the varno of every Var  *)
(* of every expression of every node of the returned tree is INNER, OUTER, *)
(* or an index into the final range table: 1 <= varno <= its length.       *)
(***************************************************************************)
ValidSlot(v, g) == v.varno \in {INNER, OUTER} \/ v.varno \in 1..Len(g.finalrtable)

C1_EverySlotValid == Resolved => \A v \in PlanVars(plan) : ValidSlot(v, glob)

(***************************************************************************)
(* C2.  After set_plan_references returned, glob->relationOids holds the   *)
(* relid of every RTE_RELATION entry of every range table that was         *)
(* flattened, the root's and each sub-select's, also when the plan that    *)
(* comes back has no node left that scans it.                              *)
(***************************************************************************)
C2_RelationOids ==
    Resolved =>
        \A rtable \in FlattenedScopes : \A i \in 1..Len(rtable) :
            rtable[i].rtekind = "RTE_RELATION"
                => rtable[i].relid \in Range(glob.relationOids)

\* a wrapper over a sub-select on relation 502 is gone from the returned plan,
\* and 502 is in the list
C2_Witness ==
    /\ Resolved
    /\ SomePulledUp(glob.log)
    /\ \A n \in NodesOfPlan(plan) : n.type # "SubqueryScan"
    /\ \E rtable \in FlattenedScopes : \E i \in 1..Len(rtable) :
            rtable[i].rtekind = "RTE_RELATION" /\ rtable[i].relid = 502
    /\ 502 \in Range(glob.relationOids)

(***************************************************************************)
(* C3.  When set_plan_references returns, the final range table is longer  *)
(* than before the call by the length of the root's range table plus the   *)
(* lengths of the range tables of all SubqueryScan and TableFunctionScan   *)
(* nodes of the tree, each counted once.                                   *)
(***************************************************************************)
C3_FinalRtableLength ==
    Resolved =>
        Len(glob.finalrtable) =
            Len(prev.glob.finalrtable) + Len(input.rtable) + SumOfLengths(SubScopes)

\* a sub-select inside a sub-select, after a plan resolved earlier: 1 + 2 + 2 + 2
C3_Witness ==
    /\ Resolved
    /\ Cardinality(SubScopes) = 2
    /\ Len(prev.glob.finalrtable) = 1
    /\ Len(glob.finalrtable) = 7

(***************************************************************************)
(* C4.  The nodes that hand their input through: Sort, Hash, Material,     *)
(* Unique, SetOp, Limit, LockRows, Append, MergeAppend, RecursiveUnion,    *)
(* Motion, ShareInputScan.                                                 *)
(***************************************************************************)
HandThroughTypes == PassthroughTypes \cup {"Append", "MergeAppend"}

\* entry i of the node's target list is the reference (OUTER, i)
DummyEntries(n) ==
    \A i \in 1..Len(n.targetlist) :
        /\ IsA(n.targetlist[i].expr, "Var")
        /\ n.targetlist[i].expr.varno = OUTER
        /\ n.targetlist[i].expr.varattno = i

RECURSIVE SlotsOf(_)
\* an expression with every Var reduced to its slot and position
SlotsOf(node) ==
    CASE IsA(node, "Var") ->
            [tag |-> "Var", varno |-> node.varno, varattno |-> node.varattno]
      [] HasArgs(node) -> [node EXCEPT !.args = [i \in 1..Len(@) |-> SlotsOf(@[i])]]
      [] IsA(node, "RelabelType") -> [node EXCEPT !.arg = SlotsOf(@)]
      [] IsA(node, "TargetEntry") -> [node EXCEPT !.expr = SlotsOf(@)]
      [] IsA(node, "PlaceHolderVar") -> [node EXCEPT !.phexpr = SlotsOf(@)]
      [] OTHER -> node

SlotsOfList(lst) == [i \in 1..Len(lst) |-> SlotsOf(lst[i])]

RECURSIVE Addressing(_)
\* a plan tree with every Var of every expression reduced to its slot and position
Addressing(p) ==
    IF IsNull(p) THEN p
    ELSE [f \in DOMAIN p |->
            CASE f \in ExprListFields -> SlotsOfList(p[f])
              [] f \in ExprFields -> SlotsOf(p[f])
              [] f \in PlanFields -> Addressing(p[f])
              [] f \in PlanListFields -> [i \in 1..Len(p[f]) |-> Addressing(p[f][i])]
              [] f = "flow" -> [p[f] EXCEPT !.hashExpr = SlotsOfList(@)]
              [] f = "values_lists" -> [i \in 1..Len(p[f]) |-> SlotsOfList(p[f][i])]
              [] OTHER -> p[f]]

\* the last call was the second run
SecondRun == call.op = "set_plan_refs"

\* the second run returned, and the plan has the nodes, slots and positions
\* it had before
NoOp == pc = "again" /\ Addressing(plan) = Addressing(prev.plan)

\* C5 as stated: unless a wrapper was eliminated in the first run, the second
\* run returns without error and the plan has the same nodes, slots and
\* positions as before it.
C5_SecondRunNoOp == (SecondRun /\ ~SomePulledUp(prev.glob.log)) => NoOp

\* the node reads no output of a child: a scan of a table, or a node that
\* hands its input through and has no partitioning key to compute
ReadsNoChild(n) ==
    /\ n.type \in ScanOwnFixTypes \cup HandThroughTypes \cup BitmapSetTypes
    /\ n.flow.hashExpr = <<>>
    /\ n.type = "Motion" => n.hashExpr = <<>>

\* the node has a reference to its left child's output, and that child is a
\* scan whose own list holds range-table references
ReadsScan(n) ==
    /\ n.type \in JoinTypes \cup {"Agg", "WindowAgg", "Result", "Repeat"}
    /\ ~IsNull(n.lefttree)
    /\ n.lefttree.type \in ScanOwnFixTypes
    /\ \E v \in VarsOfList(n.targetlist) \cup VarsOfList(n.qual) : v.varno = OUTER
    /\ \A v \in VarsOfList(n.lefttree.targetlist) : v.varno \notin {INNER, OUTER}

\* C5 as the code has it: the second run is a no-op on a plan made of such
\* nodes only; it is not one on a plan with a join or upper node that refers
\* to the output of a scan below it.
C5_SecondRunNoOpOnScans ==
    SecondRun =>
        /\ (\A n \in NodesOfPlan(prev.plan) : ReadsNoChild(n)) => NoOp
        /\ (\E n \in NodesOfPlan(prev.plan) : ReadsScan(n)) => ~NoOp

\* the second run went over a Sort above a scan at slot 2 and changed nothing
C5_Witness ==
    /\ SecondRun
    /\ NoOp
    /\ prev.plan.type = "Sort"
    /\ prev.plan.lefttree.type = "SeqScan"
    /\ prev.plan.lefttree.scanrelid = 2
    /\ \A n \in NodesOfPlan(prev.plan) : ReadsNoChild(n)

\* the second run failed on a join above a scan
C5_WitnessError ==
    /\ SecondRun
    /\ pc = "error"
    /\ prev.plan.type \in JoinTypes
    /\ ReadsScan(prev.plan)

(***************************************************************************)
(* C6.  Join nodes.                                                        *)
(***************************************************************************)
RECURSIVE VarSeq(_)
\* the Vars of an expression, left to right
VarSeq(node) ==
    CASE IsA(node, "Var") -> <<node>>
      [] HasArgs(node) -> FlattenSeq([i \in 1..Len(node.args) |-> VarSeq(node.args[i])])
      [] IsA(node, "RelabelType") -> VarSeq(node.arg)
      [] IsA(node, "TargetEntry") -> VarSeq(node.expr)
      [] IsA(node, "PlaceHolderVar") -> VarSeq(node.phexpr)
      [] OTHER -> <<>>

VarSeqOfList(lst) == FlattenSeq([i \in 1..Len(lst) |-> VarSeq(lst[i])])

\* entry p of a child's target list is the variable v
EntryIs(tlist, p, v) ==
    /\ IsA(tlist[p].expr, "Var")
    /\ tlist[p].expr.varno = v.varno
    /\ tlist[p].expr.varattno = v.varattno

\* the Vars outs are the Vars ins resolved against the two children's lists
JoinResolved(ins, outs, ltl, rtl) ==
    /\ Len(outs) = Len(ins)
    /\ \A k \in 1..Len(ins) :
          /\ outs[k].varno \in {INNER, OUTER}
          /\ \A p \in 1..Len(ltl) :
                EntryIs(ltl, p, ins[k]) => outs[k].varno = OUTER /\ outs[k].varattno = p
          /\ \A q \in 1..Len(rtl) :
                EntryIs(rtl, q, ins[k]) => outs[k].varno = INNER /\ outs[k].varattno = q

\* the target list the join's case works on: the planner's, or its flattened
\* form when a Result was put above the join to evaluate it
JoinTlist(m) ==
    IF cdb_expr_requires_full_eval(m.targetlist) THEN flatten_tlist(m.targetlist)
    ELSE m.targetlist

\* C6: after set_plan_references returned, in every NestLoop, MergeJoin and
\* HashJoin node each Var of the target list, the qual and the join qual that
\* was the left child's unfixed entry p is (OUTER, p), each that was the right
\* child's unfixed entry q is (INNER, q), and none has another slot.
C6_JoinSlots ==
    Resolved =>
        \A m \in NodesOfPlan(input.plan) :
            m.type \in JoinTypes =>
                /\ InOutput(m.id)
                /\ JoinResolved(VarSeqOfList(JoinTlist(m)),
                                VarSeqOfList(OutputNode(m.id).targetlist),
                                m.lefttree.targetlist, m.righttree.targetlist)
                /\ \A f \in {"qual", "joinqual"} :
                        JoinResolved(VarSeqOfList(m[f]),
                                     VarSeqOfList(OutputNode(m.id)[f]),
                                     m.lefttree.targetlist, m.righttree.targetlist)

\* scenario A: the filter a.x = b.x of a join of [a.x, a.y] and [b.x] came
\* back as OUTER.1 = INNER.1
C6_Witness ==
    /\ Resolved
    /\ plan.type \in JoinTypes
    /\ input.plan.qual = <<Eq(V(1, 1), V(2, 1))>>
    /\ Len(input.plan.lefttree.targetlist) = 2
    /\ EntryIs(input.plan.lefttree.targetlist, 1, V(1, 1))
    /\ Len(input.plan.righttree.targetlist) = 1
    /\ EntryIs(input.plan.righttree.targetlist, 1, V(2, 1))
    /\ SlotsOf(plan.qual[1]).args = <<SlotsOf(makeVar(OUTER, 1)), SlotsOf(makeVar(INNER, 1))>>
    /\ \A v \in VarsOfList(plan.targetlist) : v.varno \in {INNER, OUTER}

(***************************************************************************)
(* C7.  Elimination of a SubqueryScan that does nothing.                   *)
(***************************************************************************)
\* the subplan of a wrapper as it comes back from set_plan_references (the
\* offset only changes the varno of its Vars)
ResolvedSubplan(m) ==
    set_plan_references(PriorGlob(0), m.subplan, m.subrtable, m.subrowmark).plan

\* the wrapper has no qual and its target list repeats its resolved subplan's,
\* column by column
Trivial(m) ==
    /\ m.type = "SubqueryScan"
    /\ trivial_subqueryscan([m EXCEPT !.subplan = ResolvedSubplan(m)])

RECURSIVE ReplacementId(_)
\* the address of the node that comes back for the subtree p: the subplan of
\* a wrapper that does nothing, the Result put above a node to evaluate its
\* target list, or the node itself
ReplacementId(p) ==
    IF Trivial(p) THEN ReplacementId(p.subplan)
    ELSE IF p.type \in GuardedTypes /\ cdb_expr_requires_full_eval(p.targetlist)
         THEN ResultIdOf(p.id)
         ELSE p.id

\* m is not itself the subplan of a wrapper that does nothing
Outermost(m) ==
    \A w \in NodesOfPlan(input.plan) : Trivial(w) => w.subplan.id # m.id

\* entry i of the list carries the name and the origin of the wrapper's entry i
CarriesNames(tlist, m) ==
    /\ Len(tlist) = Len(m.targetlist)
    /\ \A i \in 1..Len(tlist) :
          /\ tlist[i].resname = m.targetlist[i].resname
          /\ tlist[i].resorigtbl = m.targetlist[i].resorigtbl
          /\ tlist[i].resorigcol = m.targetlist[i].resorigcol

\* C7: after set_plan_references returned, a SubqueryScan that had no qual
\* and repeated its subplan's columns is not in the returned tree; its
\* resolved subplan is, at the root when the wrapper was the root, and entry i
\* of the subplan's target list has the resname, resorigtbl and resorigcol of
\* the wrapper's entry i.
C7_WrapperEliminated ==
    Resolved =>
        \A m \in NodesOfPlan(input.plan) :
            (Trivial(m) /\ Outermost(m)) =>
                /\ ~InOutput(m.id)
                /\ InOutput(ReplacementId(m))
                /\ input.plan.id = m.id => plan.id = ReplacementId(m)
                /\ CarriesNames(OutputNode(ReplacementId(m)).targetlist, m)

\* scenario B: a wrapper with columns p, q over a scan with columns x, y is
\* gone, and the scan came back with columns p, q
C7_Witness ==
    /\ Resolved
    /\ Trivial(input.plan)
    /\ input.plan.targetlist[1].resname = "p"
    /\ input.plan.subplan.type = "SeqScan"
    /\ input.plan.subplan.targetlist[1].resname = "x"
    /\ plan.type = "SeqScan"
    /\ plan.id = input.plan.subplan.id
    /\ plan.targetlist[1].resname = "p"
    /\ plan.targetlist[2].resname = "q"
    /\ plan.targetlist[2].resorigtbl = 500
    /\ plan.targetlist[2].resorigcol = 2

(***************************************************************************)
(* C8.  Agg, WindowAgg, Result and Repeat nodes above one child: reuse of  *)
(* what the child computes.                                                *)
(***************************************************************************)
\* the positions of the child's entries that are not plain Vars and equal expr
EqualEntries(expr, ctl) ==
    {p \in 1..Len(ctl) : ~IsA(ctl[p].expr, "Var") /\ equal(expr, ctl[p].expr)}

RECURSIVE UpperReplaced(_, _, _)
\* out is expr with every subexpression that equals such an entry replaced
\* by the reference (OUTER, position of the entry)
UpperReplaced(expr, out, ctl) ==
    IF ~IsA(expr, "Var") /\ EqualEntries(expr, ctl) # {}
    THEN /\ IsA(out, "Var")
         /\ out.varno = OUTER
         /\ out.varattno \in EqualEntries(expr, ctl)
    ELSE IF HasArgs(expr)
    THEN /\ HasArgs(out)
         /\ Len(out.args) = Len(expr.args)
         /\ \A i \in 1..Len(expr.args) : UpperReplaced(expr.args[i], out.args[i], ctl)
    ELSE TRUE

RECURSIVE Reused(_, _, _)
\* the pairs <<subexpression, what stands for it in out>> of the
\* subexpressions of expr that equal such an entry
Reused(expr, out, ctl) ==
    IF ~IsA(expr, "Var") /\ EqualEntries(expr, ctl) # {}
    THEN {<<StripOpfuncid(expr), SlotsOf(out)>>}
    ELSE IF HasArgs(expr) /\ HasArgs(out) /\ Len(out.args) = Len(expr.args)
    THEN UNION {Reused(expr.args[i], out.args[i], ctl) : i \in 1..Len(expr.args)}
    ELSE {}

\* the same for the target list and the qual of the node m, returned as n
ReusedIn(m, n) ==
    UNION ({Reused(m.targetlist[k].expr, n.targetlist[k].expr, m.lefttree.targetlist) :
                k \in 1..Len(m.targetlist)}
           \cup {Reused(m.qual[k], n.qual[k], m.lefttree.targetlist) :
                    k \in 1..Len(m.qual)})

\* the nodes of the planner's tree that the claim is about
UpperNodes ==
    {m \in NodesOfPlan(input.plan) :
        m.type \in {"Agg", "WindowAgg", "Result", "Repeat"} /\ ~IsNull(m.lefttree)}

\* C8 as stated: after set_plan_references returned, in every Agg, WindowAgg,
\* Result and Repeat node with a child, each subexpression of the target list
\* and the qual that equals a non-Var entry of the child's unfixed target list
\* is the reference (OUTER, position of that entry), and two occurrences of
\* one expression are references to one position.
C8_ReusesChildEntry ==
    Resolved =>
        \A m \in UpperNodes :
            /\ InOutput(m.id)
            /\ \A k \in 1..Len(m.targetlist) :
                    UpperReplaced(m.targetlist[k].expr,
                                  OutputNode(m.id).targetlist[k].expr,
                                  m.lefttree.targetlist)
            /\ \A k \in 1..Len(m.qual) :
                    UpperReplaced(m.qual[k], OutputNode(m.id).qual[k],
                                  m.lefttree.targetlist)
            /\ \A a, b \in ReusedIn(m, OutputNode(m.id)) : a[1] = b[1] => a[2] = b[2]

(***************************************************************************)
(* C9.  record_plan_function_dependency.                                   *)
(***************************************************************************)
\* the last call was record_plan_function_dependency
Recorded == call.op = "record_plan_function_dependency"

\* C9: a call with funcid below FirstBootstrapObjectId returns with
\* glob->invalItems as it was; a call with funcid at or above it either
\* returns with exactly one item for funcid appended, or, when pg_proc has no
\* such function, raises an error and appends nothing.
C9_FunctionDependency ==
    Recorded =>
        IF call.funcid < FirstBootstrapObjectId
        THEN pc = "start" /\ glob.invalItems = prev.glob.invalItems
        ELSE \/ /\ pc = "start"
                /\ glob.invalItems =
                        Append(prev.glob.invalItems, PlanInvalItem(call.funcid))
             \/ /\ pc = "error"
                /\ ~SearchSysCache1_PROCOID(call.funcid)
                /\ glob.invalItems = prev.glob.invalItems

\* a user-defined function was recorded: one item more than before
C9_Witness ==
    /\ Recorded
    /\ call.funcid >= FirstBootstrapObjectId
    /\ pc = "start"
    /\ Len(glob.invalItems) = Len(prev.glob.invalItems) + 1
    /\ glob.invalItems[Len(glob.invalItems)].tupleId = call.funcid

(***************************************************************************)
(* C10.  The order in which the nodes of a tree are fixed, read from       *)
(* glob.log: the entry of a node is made when its case of the switch       *)
(* starts on its own fields, or when it is eliminated.                     *)
(***************************************************************************)
\* the direct children and sub-plans of a node
ChildNodes(m) ==
    {m[f] : f \in {g \in PlanFields \cap DOMAIN m : ~IsNull(m[g])}}
        \cup UNION {Range(m[f]) : f \in PlanListFields \cap DOMAIN m}

\* the place in the log of the entry of the node with the given address (0: none)
EventAt(log, id) == FirstHit({i \in 1..Len(log) : log[i][2] = id})

\* the node m has its entry, and every one of the nodes cs has a later one
Before(log, m, cs) ==
    /\ EventAt(log, m.id) # 0
    /\ \A c \in cs : EventAt(log, m.id) < EventAt(log, c.id)

\* every one of the nodes cs has its entry, and the node m has a later one
After(log, m, cs) ==
    /\ EventAt(log, m.id) # 0
    /\ \A c \in cs : EventAt(log, c.id) # 0 /\ EventAt(log, c.id) < EventAt(log, m.id)

\* the nodes whose case resolves the sub-plan before anything else
SubplanFirstTypes == {"SubqueryScan", "TableFunctionScan"}

\* C10 as stated: for every node of every kind, the node's own expressions are
\* fixed before any of its children or sub-plans.
C10_OwnBeforeChildren ==
    Resolved => \A m \in NodesOfPlan(input.plan) : Before(glob.log, m, ChildNodes(m))

\* C10 as the code has it: a node's own expressions are fixed before any of
\* its children, except for SubqueryScan and TableFunctionScan, where every
\* node of the sub-plan is fixed before the node's own expressions are.
C10_OwnBeforeChildrenButSubplans ==
    Resolved =>
        \A m \in NodesOfPlan(input.plan) :
            IF m.type \in SubplanFirstTypes
            THEN After(glob.log, m, UNION {NodesOfPlan(c) : c \in ChildNodes(m)})
            ELSE Before(glob.log, m, ChildNodes(m))

\* a join was fixed before both of its children, and a SubqueryScan that
\* stayed in the plan after the scan below it
C10_Witness ==
    /\ Resolved
    /\ \E m \in NodesOfPlan(input.plan) :
            /\ m.type \in JoinTypes
            /\ Cardinality(ChildNodes(m)) = 2
            /\ Before(glob.log, m, ChildNodes(m))
    /\ \E m \in NodesOfPlan(input.plan) :
            /\ m.type = "SubqueryScan"
            /\ InOutput(m.id)
            /\ ChildNodes(m) # {}
            /\ After(glob.log, m, ChildNodes(m))

(***************************************************************************)
(* C11.  A Var of a join node or of an upper node with one child that is   *)
(* in no entry of the child target lists it is sought in, and whose varno  *)
(* is not the acceptable relation (0 for every join, none for an upper     *)
(* node), makes set_plan_references raise an error; and no Var of the      *)
(* fields these nodes have fixed against their children is returned with   *)
(* the varno of a range-table slot.                                        *)
(***************************************************************************)
\* the node types whose expressions are matched against the left child alone
SingleChildTypes == {"Agg", "WindowAgg", "Result", "Repeat", "PartitionSelector", "Motion"}

\* the fields that set_join_references and set_upper_references (and the
\* Motion, WindowAgg and PartitionSelector cases) match against the children
MatchedFields(n) ==
    CASE n.type \in JoinTypes ->
            {"targetlist", "qual", "joinqual", "mergeclauses", "hashclauses",
             "hashqualclauses", "nestParams"}
      [] n.type = "Motion" -> {"hashExpr"}
      [] OTHER ->
            {"targetlist", "qual", "startOffset", "endOffset", "levelEqExpressions",
             "levelExpressions", "residualPredicate", "propagationExpression",
             "printablePredicate", "partTabTargetlist"}

\* the nodes that match their expressions against their children
Matching(n) ==
    \/ n.type \in JoinTypes
    \/ n.type \in SingleChildTypes /\ ~IsNull(n.lefttree)

\* the Vars of the matched fields of a node
MatchedVars(n) ==
    UNION ({VarsOfList(n[f]) : f \in MatchedFields(n) \cap ExprListFields \cap DOMAIN n}
           \cup {VarsOf(n[f]) : f \in MatchedFields(n) \cap ExprFields \cap DOMAIN n})

\* the target lists a node's Vars are sought in
ChildLists(n) ==
    {n.lefttree.targetlist}
        \cup (IF n.type \in JoinTypes THEN {n.righttree.targetlist} ELSE {})

\* the Var is the expression of an entry of the list
InList(v, tlist) ==
    \E i \in 1..Len(tlist) :
        /\ IsA(StripRelabel(tlist[i].expr), "Var")
        /\ StripRelabel(tlist[i].expr).varno = v.varno
        /\ StripRelabel(tlist[i].expr).varattno = v.varattno

\* every entry of the list is a plain Var, so that no expression around a
\* Var can be matched as a whole
Flat(tlist) == \A i \in 1..Len(tlist) : IsA(tlist[i].expr, "Var")

\* the Vars of a node that the fixers look up: those that are entries of
\* its target list and, under flat child lists, all of them
SoughtVars(n) ==
    {n.targetlist[i].expr : i \in {j \in 1..Len(n.targetlist) :
                                      IsA(n.targetlist[j].expr, "Var")}}
        \cup (IF \A l \in ChildLists(n) : Flat(l) THEN MatchedVars(n) ELSE {})

Unmatched(n) ==
    {v \in SoughtVars(n) :
        /\ \A l \in ChildLists(n) : ~InList(v, l)
        /\ ~(n.type \in JoinTypes /\ v.varno = 0)}

C11_UnmatchedIsFatal ==
    /\ call.op = "set_plan_references" =>
          \A n \in NodesOfPlan(input.plan) :
              Matching(n) /\ Unmatched(n) # {} => pc = "error"
    /\ Resolved =>
          \A n \in NodesOfPlan(plan) :
              Matching(n) =>
                  \A v \in MatchedVars(n) :
                      v.varno >= INNER \/ (n.type \in JoinTypes /\ v.varno = 0)

\* the call failed on a join whose target list names a column that neither
\* child hands up
C11_Witness ==
    /\ Failed
    /\ \E n \in NodesOfPlan(input.plan) : n.type \in JoinTypes /\ Unmatched(n) # {}

(***************************************************************************)
(* C12.  A plan node whose type has no case in the switch of set_plan_refs *)
(* makes set_plan_references raise "unrecognized node type": the call      *)
(* fails whenever the tree holds such a node, and a returned tree holds    *)
(* none.                                                                   *)
(***************************************************************************)
\* the node types that the switch of set_plan_refs has a case for
HandledTypes ==
    OwnFixTypes \cup ListChildTypes \cup {"SubqueryScan", "TableFunctionScan"}

Unrecognized(p) == {n \in NodesOfPlan(p) : n.type \notin HandledTypes}

C12_UnrecognizedIsFatal ==
    /\ call.op = "set_plan_references" /\ Unrecognized(input.plan) # {} => pc = "error"
    /\ Resolved => Unrecognized(plan) = {}

\* the call failed on a tree whose root has a case and whose child has none
C12_Witness ==
    /\ Failed
    /\ input.plan.type \in HandledTypes
    /\ Unrecognized(input.plan) # {}

(***************************************************************************)
(* C13.  set_plan_references ends, with a plan or with an error, and the   *)
(* full-evaluation guard fires once for a node: the target list that       *)
(* cdb_insert_result_node leaves on the node calls no set-returning        *)
(* function, so that the dispatcher, entered again at the same offset,     *)
(* does not wrap the node again.  Every Result the guard built was built   *)
(* for a node of the planner's tree, one for a node at most, and stands    *)
(* above a node whose target list calls no set-returning function or above *)
(* another such Result (the node between them was a SubqueryScan that     *)
(* set_subqueryscan_references then left out).                             *)
(***************************************************************************)
\* the nodes that cdb_insert_result_node built
Inserted(p) == {r \in NodesOfPlan(p) : r.id >= ResultIdOf(0)}

C13_GuardWrapsOnce ==
    /\ call.op = "set_plan_references" => pc \in {"resolved", "error"}
    /\ \A n \in NodesOfPlan(input.plan) :
          n.type \in GuardedTypes =>
              ~cdb_expr_requires_full_eval(flatten_tlist(n.targetlist))
    /\ Resolved =>
          /\ \A r \in Inserted(plan) :
                /\ r.type = "Result"
                /\ ~IsNull(r.lefttree)
                /\ InInput(r.id - ResultIdOf(0))
                /\ \A r2 \in Inserted(plan) : r2.id = r.id => r2 = r
                /\ \/ ~cdb_expr_requires_full_eval(r.lefttree.targetlist)
                   \/ /\ r.lefttree \in Inserted(plan)
                      /\ InputNode(r.id - ResultIdOf(0)).type = "SubqueryScan"

\* the guard fired during the call, and the call returned a plan
C13_Witness == Resolved /\ Inserted(plan) # {}

(***************************************************************************)
(* C14.  set_returning_clause_references returns the RETURNING list with   *)
(* every Var of the result relation left with its varno and varattno, and  *)
(* every Var of another relation that is entry p of the top subplan's      *)
(* target list turned into (OUTER, p); a Var of another relation that is   *)
(* no entry of that list makes it raise an error.                          *)
(***************************************************************************)
\* the first entry of a target list that is the Var v (0: none)
EntryOf(v, tlist) == FirstHit({p \in 1..Len(tlist) : EntryIs(tlist, p, v)})

\* the Var w is what the claim says the Var v becomes
ReturningResolved(v, w, tlist, resultRelation) ==
    IF v.varno = resultRelation
    THEN w.varno = v.varno /\ w.varattno = v.varattno
    ELSE /\ EntryOf(v, tlist) # 0
         /\ w.varno = OUTER
         /\ w.varattno = tlist[EntryOf(v, tlist)].resno
         /\ w.varattno = EntryOf(v, tlist)

\* a Var of the list that belongs to another relation and that the top
\* subplan does not hand up
Absent(rlist, tlist, resultRelation) ==
    {v \in VarsOfList(rlist) : v.varno # resultRelation /\ EntryOf(v, tlist) = 0}

C14_ReturningList ==
    call.op = "set_returning_clause_references" =>
        LET tlist == input.plan.plans[1].targetlist
            rel == input.plan.resultRelations[1]
            ins == VarSeqOfList(returning.orig)
            outs == VarSeqOfList(returning.rlist)
        IN  IF Absent(returning.orig, tlist, rel) # {}
            THEN pc = "error"
            ELSE /\ pc = "start"
                 /\ Len(returning.rlist) = Len(returning.orig)
                 /\ Len(outs) = Len(ins)
                 /\ \A k \in 1..Len(ins) : ReturningResolved(ins[k], outs[k], tlist, rel)

\* RETURNING b.x, a.x, a.y over a join of a and b came back as OUTER.2, a.x,
\* a.y
C14_Witness ==
    /\ call.op = "set_returning_clause_references"
    /\ pc = "start"
    /\ Len(returning.rlist) = 3
    /\ returning.rlist[1].expr.varno = OUTER
    /\ returning.rlist[1].expr.varattno = 2
    /\ returning.rlist[2].expr.varno = 1

(***************************************************************************)
(* C15.  cdb_extract_plan_dependencies only appends to glob->relationOids  *)
(* and glob->invalItems: the final range table, the final row marks and    *)
(* the result relations are as before, the tree has the same nodes, and    *)
(* every node keeps its scanrelid, its target list, and the varno and      *)
(* varattno of every Var of every expression.                              *)
(***************************************************************************)
\* the list s is the beginning of the list t
IsPrefix(s, t) == Len(s) <= Len(t) /\ SubSeq(t, 1, Len(s)) = s

\* node m is node n with no change of addressing
SameAddressing(n, m) ==
    /\ m.type = n.type
    /\ DOMAIN m = DOMAIN n
    /\ m.targetlist = n.targetlist
    /\ "scanrelid" \in DOMAIN n => m.scanrelid = n.scanrelid
    /\ \A f \in ExprListFields \cap DOMAIN n : VarSeqOfList(m[f]) = VarSeqOfList(n[f])
    /\ \A f \in ExprFields \cap DOMAIN n : VarSeq(m[f]) = VarSeq(n[f])
    /\ NodeVars(m) = NodeVars(n)

C15_ExtractOnlyAppends ==
    call.op = "cdb_extract_plan_dependencies" =>
        /\ IsPrefix(prev.glob.relationOids, glob.relationOids)
        /\ IsPrefix(prev.glob.invalItems, glob.invalItems)
        /\ glob.finalrtable = prev.glob.finalrtable
        /\ glob.finalrowmarks = prev.glob.finalrowmarks
        /\ glob.resultRelations = prev.glob.resultRelations
        /\ Cardinality(NodesOfPlan(plan)) = Cardinality(NodesOfPlan(prev.plan))
        /\ \A n \in NodesOfPlan(prev.plan) :
              \E m \in NodesOfPlan(plan) : m.id = n.id /\ SameAddressing(n, m)

\* the walk found a function and a relation to depend on, in a tree with
\* Vars in it
C15_Witness ==
    /\ call.op = "cdb_extract_plan_dependencies"
    /\ pc = "extracted"
    /\ Len(glob.invalItems) > Len(prev.glob.invalItems)
    /\ Len(glob.relationOids) > Len(prev.glob.relationOids)
    /\ PlanVars(plan) # {}

(***************************************************************************)
(* C16.  Once set_plan_references has appended the copies of a scope's     *)
(* range-table entries at offset k, every Var of a copy's funcexpr,        *)
(* joinaliasvars and values_lists has the varno of the planner's entry     *)
(* plus k, and no copy carries the sub-select (subquery) of its entry.     *)
(***************************************************************************)
\* the Vars outs are the Vars ins with varno raised by k
ShiftedBy(ins, outs, k) ==
    /\ Len(outs) = Len(ins)
    /\ \A j \in 1..Len(ins) :
          outs[j].varno = ins[j].varno + k /\ outs[j].varattno = ins[j].varattno

\* the Vars of the substructure of a range-table entry
RteVarSeq(rte) ==
    VarSeq(rte.funcexpr) \o VarSeqOfList(rte.joinaliasvars)
        \o FlattenSeq([i \in 1..Len(rte.values_lists) |->
                         VarSeqOfList(rte.values_lists[i])])

C16_FlatEntriesReindexed ==
    Resolved =>
        LET k == Len(prev.glob.finalrtable)
        IN  \A i \in 1..Len(input.rtable) :
                /\ ShiftedBy(RteVarSeq(input.rtable[i]),
                             RteVarSeq(glob.finalrtable[k + i]), k)
                /\ ~glob.finalrtable[k + i].subquery

(***************************************************************************)
(* C17.  fix_scan_expr, fix_join_expr, fix_hashclauses and fix_upper_expr  *)
(* leave the expression lists they are given as they were: after           *)
(* set_plan_references returned, every list the planner built has the      *)
(* Vars and the structure it had before the call, whatever the plan's      *)
(* nodes now hold.                                                         *)
(***************************************************************************)
C17_InputNotMutated == Resolved => clauses = PlannerClauses(input.plan)

(***************************************************************************)
(* C18.  set_plan_references appends to glob->finalrowmarks, for the root  *)
(* scope and then for every sub-select in the order it is reached, one     *)
(* copy of each PlanRowMark in the order of the list, with rti and prti    *)
(* raised by the length the final range table had when the scope was       *)
(* flattened and rowmarkId as it was; the row marks that were in the list  *)
(* before the call stay as they were, and so do the ones handed in.        *)
(***************************************************************************)
\* the child plans of a node, in the order set_plan_refs visits them
ChildPlans(p) ==
    (IF PlanListFields \cap DOMAIN p = {} THEN <<>>
     ELSE p[CHOOSE f \in PlanListFields \cap DOMAIN p : TRUE])
    \o (IF "subplan" \in DOMAIN p THEN <<p.subplan>> ELSE <<>>)
    \o <<p.lefttree, p.righttree>>

RECURSIVE RowMarkScopes(_)
RECURSIVE RowMarkScopesOfList(_)
\* the sub-selects of a plan tree in the order they are reached: the length
\* of the range table and the row marks of each
RowMarkScopes(p) ==
    IF IsNull(p) THEN <<>>
    ELSE (IF "subrtable" \in DOMAIN p
          THEN <<[size |-> Len(p.subrtable),
                  marks |-> IF "subrowmark" \in DOMAIN p THEN p.subrowmark ELSE <<>>]>>
          ELSE <<>>)
         \o RowMarkScopesOfList(ChildPlans(p))

RowMarkScopesOfList(ps) ==
    IF ps = <<>> THEN <<>>
    ELSE RowMarkScopes(Head(ps)) \o RowMarkScopesOfList(Tail(ps))

RowMarkCopy(rc, k) == [rti |-> rc.rti + k, prti |-> rc.prti + k, rowmarkId |-> rc.rowmarkId]

RECURSIVE RowMarkCopies(_, _)
\* the copies of the row marks of a sequence of scopes, the first of which
\* is flattened at offset k
RowMarkCopies(scopes, k) ==
    IF scopes = <<>> THEN <<>>
    ELSE [i \in 1..Len(Head(scopes).marks) |-> RowMarkCopy(Head(scopes).marks[i], k)]
         \o RowMarkCopies(Tail(scopes), k + Head(scopes).size)

C18_RowMarksAppended ==
    Resolved =>
        glob.finalrowmarks =
            prev.glob.finalrowmarks
            \o RowMarkCopies(<<[size |-> Len(input.rtable), marks |-> input.rowmarks]>>
                                \o RowMarkScopes(input.plan),
                             Len(prev.glob.finalrtable))

\* two row marks of the root scope and two of a sub-select, after a plan
\* resolved earlier left one
C18_Witness ==
    /\ Resolved
    /\ Len(prev.glob.finalrowmarks) = 1
    /\ Len(input.rowmarks) = 2
    /\ \E n \in SubScopes : "subrowmark" \in DOMAIN n /\ Len(n.subrowmark) = 2
    /\ Len(glob.finalrowmarks) = 5
    /\ glob.finalrowmarks[5] = PlanRowMark(4, 4, 4)

(***************************************************************************)
(* C19.  fix_join_expr on a Var: one that both the outer and the inner     *)
(* list supply becomes OUTER and its position in the outer list; one that  *)
(* neither list supplies comes back with its varno and varattno when its   *)
(* varno is acceptable_rel, and raises an error when it is not.            *)
(***************************************************************************)
\* the Vars that are a clause's arguments, or a target entry's expression,
\* each with what stands in its place in the list that came back
FixedVars ==
    IF input.shape = "join"
    THEN {<<returning.orig[1].args[i], returning.rlist[1].args[i]>> :
            i \in {j \in 1..2 : IsA(returning.orig[1].args[j], "Var")}}
    ELSE {<<returning.orig[1].expr, returning.rlist[1].expr>> :
            i \in {j \in 1..1 : IsA(returning.orig[1].expr, "Var")}}

\* the outer list, and the inner list, supply the Var: the Vars of the
\* acceptable relation are left out of a RETURNING list's index
InLeft(v) ==
    /\ EntryOf(v, input.outer) # 0
    /\ input.shape = "join" \/ v.varno # input.acceptable_rel

InRight(v) == input.shape = "join" /\ EntryOf(v, input.inner) # 0

C19_JoinVarResolution ==
    call.op = "fix_join_expr" =>
        \A vw \in FixedVars :
            /\ (InLeft(vw[1]) /\ InRight(vw[1]) /\ pc = "fixed") =>
                    /\ vw[2].varno = OUTER
                    /\ vw[2].varattno = EntryOf(vw[1], input.outer)
            /\ (~InLeft(vw[1]) /\ ~InRight(vw[1])) =>
                    IF vw[1].varno = input.acceptable_rel
                    THEN pc = "fixed" =>
                            /\ vw[2].varno = vw[1].varno
                            /\ vw[2].varattno = vw[1].varattno
                    ELSE pc = "error"

\* a.x = b.x over the lists [b.x, a.x] and [a.x, b.x] came back as
\* OUTER.2 = OUTER.1
C19_Witness ==
    /\ call.op = "fix_join_expr"
    /\ pc = "fixed"
    /\ returning.orig = <<Eq(V(1, 1), V(2, 1))>>
    /\ InLeft(V(1, 1)) /\ InRight(V(1, 1))
    /\ InLeft(V(2, 1)) /\ InRight(V(2, 1))
    /\ returning.rlist[1].args[1].varno = OUTER
    /\ returning.rlist[1].args[1].varattno = 2
    /\ returning.rlist[1].args[2].varno = OUTER

ModifyTables(p) == {n \in NodesOfPlan(p) : n.type = "ModifyTable"}

\* the positions of glob->resultRelations that belong to the node
Segment(M) == (M.resultRelIndex + 1)..(M.resultRelIndex + Len(M.resultRelations))

C21_ResultRelationSegments ==
    Resolved =>
        LET k == Len(prev.glob.finalrtable)
        IN  /\ \A m \in ModifyTables(input.plan) : InOutput(m.id)
            /\ \A M \in ModifyTables(plan) :
                  /\ Len(M.resultRelations) = Len(InputNode(M.id).resultRelations)
                  /\ Segment(M) \subseteq DOMAIN glob.resultRelations
                  /\ \A j \in 1..Len(M.resultRelations) :
                        /\ M.resultRelations[j] = InputNode(M.id).resultRelations[j] + k
                        /\ glob.resultRelations[M.resultRelIndex + j] = M.resultRelations[j]
                  /\ Len(M.rowMarks) = Len(InputNode(M.id).rowMarks)
                  /\ \A i \in 1..Len(M.rowMarks) :
                        /\ M.rowMarks[i].rti = InputNode(M.id).rowMarks[i].rti + k
                        /\ M.rowMarks[i].prti = InputNode(M.id).rowMarks[i].prti + k
            /\ \A M, N \in ModifyTables(plan) :
                  M.id # N.id => Segment(M) \cap Segment(N) = {}
            /\ SubSeq(glob.resultRelations, 1, Len(prev.glob.resultRelations))
                  = prev.glob.resultRelations

\* two ModifyTable nodes under an Append, after a plan that left a result
\* relation and a range table entry: their segments are {2} and {3}
C21_Witness ==
    /\ Resolved
    /\ Cardinality(ModifyTables(plan)) = 2
    /\ Len(prev.glob.finalrtable) = 1
    /\ glob.resultRelations = <<1, 2, 3>>
    /\ {M.resultRelIndex : M \in ModifyTables(plan)} = {1, 2}
    /\ \A M \in ModifyTables(plan) : M.rowMarks = <<PlanRowMark(3, 3, 1)>>

(***************************************************************************)
(* C22.  Every visit of fix_expr_common to a Const of type regclass or oid *)
(* that is not NULL appends its value to glob->relationOids, once per      *)
(* visit; a NULL Const and a Const of another type append nothing.         *)
(* cdb_extract_plan_dependencies visits every expression of the plan once: *)
(* a value is appended as many times as such literals of the plan hold it. *)
(***************************************************************************)
RECURSIVE RelationLiterals(_)
\* the values of the regclass and oid literals of an expression that are not
\* NULL, one per literal
RelationLiterals(node) ==
    CASE IsA(node, "Const") ->
            IF node.consttype \in {REGCLASSOID, OIDOID} /\ ~node.constisnull
            THEN <<node.constvalue>> ELSE <<>>
      [] HasArgs(node) ->
            FlattenSeq([i \in 1..Len(node.args) |-> RelationLiterals(node.args[i])])
      [] IsA(node, "RelabelType") -> RelationLiterals(node.arg)
      [] IsA(node, "TargetEntry") -> RelationLiterals(node.expr)
      [] IsA(node, "PlaceHolderVar") -> RelationLiterals(node.phexpr)
      [] OTHER -> <<>>

RelationLiteralsOfList(lst) ==
    FlattenSeq([i \in 1..Len(lst) |-> RelationLiterals(lst[i])])

RECURSIVE SeqOfSet(_)
\* the members of a finite set, one after the other
SeqOfSet(S) ==
    IF S = {} THEN <<>>
    ELSE LET x == CHOOSE y \in S : TRUE IN <<x>> \o SeqOfSet(S \ {x})

\* the same for all expressions of one plan node
NodeRelationLiterals(n) ==
    LET lists == SeqOfSet(ExprListFields \cap DOMAIN n)
        exprs == SeqOfSet(ExprFields \cap DOMAIN n)
    IN  FlattenSeq([i \in 1..Len(lists) |-> RelationLiteralsOfList(n[lists[i]])])
        \o FlattenSeq([i \in 1..Len(exprs) |-> RelationLiterals(n[exprs[i]])])
        \o RelationLiteralsOfList(n.flow.hashExpr)
        \o (IF "values_lists" \in DOMAIN n
            THEN FlattenSeq([i \in 1..Len(n.values_lists) |->
                                RelationLiteralsOfList(n.values_lists[i])])
            ELSE <<>>)

\* and for all nodes of a plan tree
PlanRelationLiterals(p) ==
    LET nodes == SeqOfSet(NodesOfPlan(p))
    IN  FlattenSeq([i \in 1..Len(nodes) |-> NodeRelationLiterals(nodes[i])])

\* how often v stands in the list
Occurrences(v, lst) == Cardinality({i \in 1..Len(lst) : lst[i] = v})

\* the list now is the list before with the values appended, in some order
AppendedTo(before, now, values) ==
    /\ IsPrefix(before, now)
    /\ Len(now) = Len(before) + Len(values)
    /\ \A v \in Range(now) \cup Range(values) :
          Occurrences(v, now) = Occurrences(v, before) + Occurrences(v, values)

\* the relations of a range table: set_plan_references records them as well
RelidsOf(rtable) ==
    SelectSeq([i \in 1..Len(rtable) |-> rtable[i].relid], LAMBDA r : r # InvalidOid)

C22_RelationLiteralsRecorded ==
    /\ (call.op = "cdb_extract_plan_dependencies" /\ pc = "extracted") =>
            AppendedTo(prev.glob.relationOids, glob.relationOids,
                       PlanRelationLiterals(prev.plan))
    \* a scan that stands alone: set_plan_references visits its expressions once
    /\ (Resolved /\ NodesOfPlan(input.plan) = {input.plan} /\ plan.id = input.plan.id
          /\ input.plan.type \in SimpleScanTypes) =>
            AppendedTo(prev.glob.relationOids, glob.relationOids,
                       RelidsOf(input.rtable) \o NodeRelationLiterals(input.plan))

\* 500::regclass twice, 501::oid once, beside NULL::regclass and integer 500
C22_Witness ==
    /\ call.op = "cdb_extract_plan_dependencies"
    /\ pc = "extracted"
    /\ \E i \in 1..Len(plan.targetlist) :
          IsA(plan.targetlist[i].expr, "Const") /\ plan.targetlist[i].expr.constisnull
    /\ \E i \in 1..Len(plan.qual) : plan.qual[i].args[2] = Int4(500)
    /\ Len(glob.relationOids) = Len(prev.glob.relationOids) + 3
    /\ Occurrences(500, PlanRelationLiterals(prev.plan)) = 2
    /\ Occurrences(501, PlanRelationLiterals(prev.plan)) = 1

(***************************************************************************)
(* C23.  A SubqueryScan is left out of the returned tree exactly when it   *)
(* has no qual, its target list is as long as its resolved subplan's, and  *)
(* at every position the resjunk flags agree and the wrapper's entry is a  *)
(* Var of the subplan's column at that position or a Const equal to the    *)
(* subplan's entry.  As stated, about the target list the planner gave the *)
(* wrapper, this fails: when that list calls a set-returning function,     *)
(* cdb_insert_result_node moves it to a Result and leaves the wrapper the  *)
(* flattened list of Vars, and it is that list trivial_subqueryscan        *)
(* compares.  The statement holds of the list the wrapper has when         *)
(* set_subqueryscan_references reaches it.                                 *)
(***************************************************************************)
SubqueryScans == {m \in NodesOfPlan(input.plan) : m.type = "SubqueryScan"}

\* the three conditions of the claim, on a wrapper's target list and qual
\* and its resolved subplan's target list
RepeatsChild(m, tlist, ctlist) ==
    /\ m.qual = <<>>
    /\ Len(tlist) = Len(ctlist)
    /\ \A i \in 1..Len(tlist) :
          /\ tlist[i].resjunk = ctlist[i].resjunk
          /\ \/ /\ tlist[i].expr.tag = "Var"
                /\ tlist[i].expr.varno = m.scanrelid
                /\ tlist[i].expr.varattno = i
             \/ /\ tlist[i].expr.tag = "Const"
                /\ StripOpfuncid(tlist[i].expr) = StripOpfuncid(ctlist[i].expr)

\* the target list a wrapper has when set_subqueryscan_references reaches it
ListAtWrapper(m) ==
    IF cdb_expr_requires_full_eval(m.targetlist)
    THEN flatten_tlist(m.targetlist)
    ELSE m.targetlist

C23_EliminatedIffRepeatsChild ==
    Resolved =>
        \A m \in SubqueryScans :
            ~InOutput(m.id)
                <=> RepeatsChild(m, m.targetlist, ResolvedSubplan(m).targetlist)

C23_EliminatedIffGuardedListRepeatsChild ==
    Resolved =>
        \A m \in SubqueryScans :
            ~InOutput(m.id)
                <=> RepeatsChild(m, ListAtWrapper(m), ResolvedSubplan(m).targetlist)

\* a wrapper whose list calls a set-returning function is left out after the
\* guard took that list: the guard's Result stands in the returned tree
C23_Witness ==
    /\ Resolved
    /\ \E m \in SubqueryScans :
          /\ ~InOutput(m.id)
          /\ cdb_expr_requires_full_eval(m.targetlist)
          /\ InOutput(ResultIdOf(m.id))

(***************************************************************************)
(* C24.  When a SubqueryScan is left out, the plan that takes its place    *)
(* has as initPlan list the wrapper's list followed by the list that plan  *)
(* had of its own: no initPlan is lost and none stands twice.              *)
(***************************************************************************)
\* the id of the node set_plan_refs returned for the planner's node p
RECURSIVE ReturnedId(_)
ReturnedId(p) ==
    IF InOutput(ResultIdOf(p.id)) THEN ResultIdOf(p.id)
    ELSE IF InOutput(p.id) \/ p.type # "SubqueryScan" THEN p.id
    ELSE ReturnedId(p.subplan)

\* the initPlan list of that node: a Result of the guard has none, a node
\* that stayed has the planner's, and the plan that replaced a wrapper has
\* the wrapper's in front of its own
RECURSIVE ReturnedInitPlan(_)
ReturnedInitPlan(p) ==
    IF InOutput(ResultIdOf(p.id)) THEN <<>>
    ELSE IF InOutput(p.id) \/ p.type # "SubqueryScan" THEN p.initPlan
    ELSE p.initPlan \o ReturnedInitPlan(p.subplan)

C24_InitPlansMoveToChild ==
    Resolved =>
        \A m \in SubqueryScans :
            ~InOutput(m.id) =>
                /\ InOutput(ReturnedId(m.subplan))
                /\ OutputNode(ReturnedId(m.subplan)).initPlan
                      = m.initPlan \o ReturnedInitPlan(m.subplan)

\* a wrapper and its subplan both had initPlans, and the wrapper was left out
C24_Witness ==
    /\ Resolved
    /\ \E m \in SubqueryScans :
          /\ ~InOutput(m.id)
          /\ m.initPlan # <<>>
          /\ m.subplan.initPlan # <<>>
          /\ OutputNode(ReturnedId(m.subplan)).initPlan
                = m.initPlan \o m.subplan.initPlan

(***************************************************************************)
(* C25.  For a scan or a join whose target list calls a set-returning      *)
(* function, set_plan_refs returns a new Result above the node; the Result *)
(* has the node's target list, resolved against the node, and the node is  *)
(* left a list of plain Vars and PlaceHolderVars that supplies each of     *)
(* them.  For a scan or a join whose target list calls none, no Result is  *)
(* built.  A SubqueryScan that set_subqueryscan_references leaves out      *)
(* afterwards counts as wrapped when the Result stands above the plan that *)
(* replaced it.                                                            *)
(***************************************************************************)
ScanAndJoinTypes ==
    ScanOwnFixTypes \cup JoinTypes \cup {"SubqueryScan", "TableFunctionScan"}

RECURSIVE RefSeq(_)
\* the Vars and PlaceHolderVars of an expression, left to right
RefSeq(node) ==
    CASE IsA(node, "Var") \/ IsA(node, "PlaceHolderVar") -> <<node>>
      [] HasArgs(node) -> FlattenSeq([i \in 1..Len(node.args) |-> RefSeq(node.args[i])])
      [] IsA(node, "RelabelType") -> RefSeq(node.arg)
      [] IsA(node, "TargetEntry") -> RefSeq(node.expr)
      [] OTHER -> <<>>

\* out is the entry expr with each Var and PlaceHolderVar turned into the
\* reference (OUTER, p), p the position that flat gives it
ResolvedAgainst(expr, out, flat) ==
    /\ Len(RefSeq(out)) = Len(RefSeq(expr))
    /\ \A k \in 1..Len(RefSeq(expr)) :
          /\ IsA(RefSeq(out)[k], "Var")
          /\ RefSeq(out)[k].varno = OUTER
          /\ RefSeq(out)[k].varattno \in 1..Len(flat)
          /\ equal(flat[RefSeq(out)[k].varattno].expr, RefSeq(expr)[k])

\* the Result r took over the target list of the planner's node n
TookOver(r, n) ==
    /\ r.type = "Result"
    /\ ~IsNull(r.lefttree)
    /\ IF InOutput(n.id) THEN r.lefttree.id = n.id
       ELSE n.type = "SubqueryScan" /\ r.lefttree.id = ReturnedId(n.subplan)
    /\ Len(r.targetlist) = Len(n.targetlist)
    /\ \A i \in 1..Len(n.targetlist) :
          ResolvedAgainst(n.targetlist[i].expr, r.targetlist[i].expr,
                          flatten_tlist(n.targetlist))
    /\ InOutput(n.id) =>
          /\ Len(OutputNode(n.id).targetlist) = Len(flatten_tlist(n.targetlist))
          /\ \A i \in 1..Len(OutputNode(n.id).targetlist) :
                OutputNode(n.id).targetlist[i].expr.tag \in {"Var", "PlaceHolderVar"}

GuardedAsClaimed(n) ==
    IF cdb_expr_requires_full_eval(n.targetlist)
    THEN InOutput(ResultIdOf(n.id)) /\ TookOver(OutputNode(ResultIdOf(n.id)), n)
    ELSE ~InOutput(ResultIdOf(n.id))

C25_GuardOnEveryScanAndJoin ==
    Resolved =>
        \A n \in NodesOfPlan(input.plan) :
            n.type \in ScanAndJoinTypes => GuardedAsClaimed(n)

(***************************************************************************)
(* C26.  A scan node fixed at offset k has its scanrelid raised by k, and  *)
(* every Var of its target list, its qual and the expression lists of its  *)
(* kind that is no pseudo column has its varno raised by k and its         *)
(* varattno as it was.  The offset of a node of the root scope is the      *)
(* length of the final range table before the call; that of a node of a    *)
(* sub-select is the length when the sub-select was flattened.  Hence no   *)
(* scan is shifted twice in one call of set_plan_references.               *)
(***************************************************************************)
\* the root of the plan of the sub-select under the node p
ScopeRoot(p) == IF p.type = "SubqueryScan" THEN p.subplan ELSE p.lefttree

RECURSIVE ScopeSeq(_)
RECURSIVE ScopeSeqOfList(_)
\* the sub-selects of a plan tree in the order they are flattened
ScopeSeq(p) ==
    IF IsNull(p) THEN <<>>
    ELSE (IF "subrtable" \in DOMAIN p
          THEN <<[root |-> ScopeRoot(p), rtable |-> p.subrtable]>>
          ELSE <<>>)
         \o ScopeSeqOfList(ChildPlans(p))

ScopeSeqOfList(ps) ==
    IF ps = <<>> THEN <<>>
    ELSE ScopeSeq(Head(ps)) \o ScopeSeqOfList(Tail(ps))

\* the scopes of the call: the root scope, then the sub-selects
Scopes == <<[root |-> input.plan, rtable |-> input.rtable]>> \o ScopeSeq(input.plan)

RECURSIVE SizeBefore(_, _)
\* the number of range-table entries of the scopes before scope j
SizeBefore(scopes, j) ==
    IF j = 1 THEN 0 ELSE SizeBefore(scopes, j - 1) + Len(scopes[j - 1].rtable)

\* the offset at which scope j was flattened
ScopeOffset(j) == Len(prev.glob.finalrtable) + SizeBefore(Scopes, j)

RECURSIVE LocalNodes(_)
\* the nodes of a plan tree that belong to the scope of its root
LocalNodes(p) ==
    IF IsNull(p) THEN {}
    ELSE IF "subrtable" \in DOMAIN p THEN {p}
    ELSE {p} \cup UNION {LocalNodes(ChildPlans(p)[i]) : i \in 1..Len(ChildPlans(p))}

IsPseudoColumn(v) == v.varattno <= FirstLowInvalidHeapAttributeNumber

RECURSIVE ScanShifted(_, _, _)
\* out is the expression expr with the varno of every Var that is no pseudo
\* column raised by k
ScanShifted(expr, out, k) ==
    CASE IsA(expr, "Var") ->
            IsPseudoColumn(expr)
            \/ /\ IsA(out, "Var")
               /\ out.varno = expr.varno + k
               /\ out.varattno = expr.varattno
      [] HasArgs(expr) ->
            /\ out.tag = expr.tag
            /\ Len(out.args) = Len(expr.args)
            /\ \A i \in 1..Len(expr.args) : ScanShifted(expr.args[i], out.args[i], k)
      [] IsA(expr, "RelabelType") ->
            out.tag = expr.tag /\ ScanShifted(expr.arg, out.arg, k)
      [] IsA(expr, "TargetEntry") ->
            out.tag = expr.tag /\ ScanShifted(expr.expr, out.expr, k)
      \* a scan evaluates the expression a PlaceHolderVar contains
      [] IsA(expr, "PlaceHolderVar") -> ScanShifted(expr.phexpr, out, k)
      [] OTHER -> out.tag = expr.tag

ScanListShifted(lst, out, k) ==
    /\ Len(out) = Len(lst)
    /\ \A i \in 1..Len(lst) : ScanShifted(lst[i], out[i], k)

\* the target list a scan has when its case fixes it: the planner's, or the
\* flattened one when the guard built a Result for the scan
ScanTlist(n) ==
    IF InOutput(ResultIdOf(n.id)) THEN flatten_tlist(n.targetlist) ELSE n.targetlist

\* the scan n of the planner's tree came back as out, fixed at offset k
ScanFixedAt(n, out, k) ==
    /\ out.scanrelid = n.scanrelid + k
    /\ ScanListShifted(ScanTlist(n), out.targetlist, k)
    /\ \A f \in (ExprListFields \cap DOMAIN n) \ {"targetlist"} :
          ScanListShifted(n[f], out[f], k)
    /\ \A f \in ExprFields \cap DOMAIN n : ScanShifted(n[f], out[f], k)
    /\ "values_lists" \in DOMAIN n =>
          /\ Len(out.values_lists) = Len(n.values_lists)
          /\ \A i \in 1..Len(n.values_lists) :
                ScanListShifted(n.values_lists[i], out.values_lists[i], k)

\* the scans of scope j that stand in the returned tree
ScansOfScope(j) ==
    {n \in LocalNodes(Scopes[j].root) : "scanrelid" \in DOMAIN n /\ InOutput(n.id)}

C26_ScanShiftedOnce ==
    Resolved =>
        \A j \in 1..Len(Scopes) :
            \A n \in ScansOfScope(j) : ScanFixedAt(n, OutputNode(n.id), ScopeOffset(j))

\* a scan of the root scope and a scan of a sub-select, each with a Var in
\* its target list, fixed at offsets that are neither 0 nor equal
C26_Witness ==
    /\ Resolved
    /\ Len(Scopes) > 1
    /\ ScopeOffset(1) > 0
    /\ \E n \in ScansOfScope(1) : VarsOfList(n.targetlist) # {}
    /\ \E n \in ScansOfScope(2) : VarsOfList(n.targetlist) # {}

(***************************************************************************)
(* C27.  A Var of a scan that names a pseudo column is replaced by a copy  *)
(* of the defining expression that the final range-table entry at the      *)
(* Var's slot, offset added, has for it.  The copy has no pseudo-column    *)
(* Var, each Var in it has its varno raised by the offset, and the         *)
(* defining expression in the range table stays as the planner gave it.    *)
(***************************************************************************)
\* the defining expression the planner's scope has for the pseudo column v
DefExpr(v) == cdb_rte_find_pseudo_column(input.rtable[v.varno], v.varattno)

RECURSIVE PseudoReplaced(_, _, _)
\* out is expr with each pseudo-column Var replaced by its defining
\* expression, the Vars of which have their varno raised by k
PseudoReplaced(expr, out, k) ==
    CASE IsA(expr, "Var") ->
            IsPseudoColumn(expr) => ScanShifted(DefExpr(expr), out, k)
      [] HasArgs(expr) ->
            /\ HasArgs(out)
            /\ Len(out.args) = Len(expr.args)
            /\ \A i \in 1..Len(expr.args) : PseudoReplaced(expr.args[i], out.args[i], k)
      [] IsA(expr, "TargetEntry") ->
            IsA(out, "TargetEntry") /\ PseudoReplaced(expr.expr, out.expr, k)
      [] OTHER -> TRUE

PseudoReplacedInList(lst, out, k) ==
    /\ Len(out) = Len(lst)
    /\ \A i \in 1..Len(lst) : PseudoReplaced(lst[i], out[i], k)

\* the plan is a scan that names a pseudo column
NamesPseudoColumn(p) ==
    "scanrelid" \in DOMAIN p /\ \E v \in NodeVars(p) : IsPseudoColumn(v)

C27_PseudoColumnReplaced ==
    (Resolved /\ NamesPseudoColumn(input.plan)) =>
        /\ \A v \in PlanVars(plan) : ~IsPseudoColumn(v)
        /\ PseudoReplacedInList(input.plan.targetlist, plan.targetlist,
                                Len(prev.glob.finalrtable))
        /\ PseudoReplacedInList(input.plan.qual, plan.qual, Len(prev.glob.finalrtable))
        /\ \A i \in 1..Len(input.rtable) :
              glob.finalrtable[Len(prev.glob.finalrtable) + i].pseudocols
                  = input.rtable[i].pseudocols

(***************************************************************************)
(* C28.  In an Agg, WindowAgg, Result or Repeat node above one child, a    *)
(* target entry that is no Var and carries the sort/group tag t becomes a  *)
(* reference to the position of a child entry with tag t and an equal      *)
(* expression, also when an equal expression with another tag stands       *)
(* earlier in the child's list.  When no child entry has tag t, the entry  *)
(* is matched like an untagged one: as a reference to a child entry that   *)
(* is no Var and equal to it, or else part by part.                        *)
(***************************************************************************)
\* the positions of the child's entries with tag t and an expression equal
\* to expr
TagHits(expr, t, ctl) ==
    {p \in 1..Len(ctl) : ctl[p].ressortgroupref = t /\ equal(expr, ctl[p].expr)}

\* the child's list has an entry with tag t
HasTag(t, ctl) == \E p \in 1..Len(ctl) : ctl[p].ressortgroupref = t

\* the tagged entries of the target list of m that are no Vars
TaggedEntries(m) ==
    {i \in 1..Len(m.targetlist) :
        m.targetlist[i].ressortgroupref # 0 /\ ~IsA(m.targetlist[i].expr, "Var")}

\* out refers to one of the positions ps of the child's list
RefersTo(out, ps) == IsA(out, "Var") /\ out.varattno \in ps

\* entry tle of m, returned as out: by tag, or by ordinary matching
MatchedByTagFirst(tle, out, ctl) ==
    IF HasTag(tle.ressortgroupref, ctl)
    THEN RefersTo(out.expr, TagHits(tle.expr, tle.ressortgroupref, ctl))
    ELSE IF EqualEntries(tle.expr, ctl) # {}
    THEN RefersTo(out.expr, EqualEntries(tle.expr, ctl))
    ELSE out.expr.tag = tle.expr.tag

C28_TagBeforeExpression ==
    Resolved =>
        \A m \in UpperNodes :
            InOutput(m.id) =>
                \A i \in TaggedEntries(m) :
                    MatchedByTagFirst(m.targetlist[i], OutputNode(m.id).targetlist[i],
                                      m.lefttree.targetlist)

\* an entry tagged 2 became a reference to position 2 of the child's list,
\* whose position 1 has an equal expression tagged 1
C28_Witness ==
    /\ Resolved
    /\ \E m \in UpperNodes :
          /\ InOutput(m.id)
          /\ \E i \in TaggedEntries(m) :
                /\ m.targetlist[i].ressortgroupref = 2
                /\ TagHits(m.targetlist[i].expr, 1, m.lefttree.targetlist) = {1}
                /\ OutputNode(m.id).targetlist[i].expr.varattno = 2

(***************************************************************************)
(* C29.  A Result with a child, whatever the offset it is fixed at and     *)
(* also when cdb_insert_result_node built it, has in its target list and   *)
(* its qual only Vars (OUTER, p), p the position of the child's entry the  *)
(* Var stood for.  A Result without a child has the varno of its Vars      *)
(* raised by the offset, like a scan.                                      *)
(***************************************************************************)
\* every Var of the target list and the qual of r refers to ctl through OUTER
RefersToChild(r, ctl) ==
    \A v \in VarsOfList(r.targetlist) \cup VarsOfList(r.qual) :
        v.varno = OUTER /\ v.varattno \in 1..Len(ctl)

\* the Result m of the planner's tree, with a child, came back as out
ResultResolved(m, out) ==
    /\ RefersToChild(out, m.lefttree.targetlist)
    /\ \A i \in 1..Len(m.targetlist) :
          IsA(m.targetlist[i].expr, "Var") =>
              /\ IsA(out.targetlist[i].expr, "Var")
              /\ out.targetlist[i].expr.varattno \in 1..Len(m.lefttree.targetlist)
              /\ EntryIs(m.lefttree.targetlist, out.targetlist[i].expr.varattno,
                         m.targetlist[i].expr)

\* the Results of scope j in the planner's tree that stand in the returned tree
ResultsOfScope(j) ==
    {m \in LocalNodes(Scopes[j].root) : m.type = "Result" /\ InOutput(m.id)}

C29_ResultReferences ==
    Resolved =>
        /\ \A j \in 1..Len(Scopes) :
              \A m \in ResultsOfScope(j) :
                  IF IsNull(m.lefttree)
                  THEN /\ ScanListShifted(m.targetlist, OutputNode(m.id).targetlist,
                                          ScopeOffset(j))
                       /\ ScanListShifted(m.qual, OutputNode(m.id).qual, ScopeOffset(j))
                  ELSE ResultResolved(m, OutputNode(m.id))
        /\ \A r \in Inserted(plan) :
              /\ RefersToChild(r, flatten_tlist(InputNode(r.id - ResultIdOf(0)).targetlist))
              /\ TookOver(r, InputNode(r.id - ResultIdOf(0)))

(***************************************************************************)
(* C30.  Flattening keeps the addressing.  The entries that were in the    *)
(* final range table before a scope is flattened stay where they were; the *)
(* copies of the entries of a scope stand in one block, in the scope's     *)
(* order, from the length the table had when the scope was flattened; and  *)
(* the scanrelid of a scan of the scope that named entry s of the scope    *)
(* names the copy of that entry.                                           *)
(***************************************************************************)
\* the final range-table entry e is the copy of the planner's entry rte
CopyOf(e, rte) ==
    /\ e.rtekind = rte.rtekind
    /\ e.relid = rte.relid
    /\ e.pseudocols = rte.pseudocols

\* the copies of the entries of scope j stand from its offset on
BlockOfScope(j) ==
    /\ ScopeOffset(j) + Len(Scopes[j].rtable) <= Len(glob.finalrtable)
    /\ \A s \in 1..Len(Scopes[j].rtable) :
          CopyOf(glob.finalrtable[ScopeOffset(j) + s], Scopes[j].rtable[s])

C30_AddressingPreserved ==
    Resolved =>
        /\ IsPrefix(prev.glob.finalrtable, glob.finalrtable)
        /\ Len(glob.finalrtable) = ScopeOffset(Len(Scopes)) + Len(Scopes[Len(Scopes)].rtable)
        /\ \A j \in 1..Len(Scopes) :
              /\ BlockOfScope(j)
              /\ \A n \in ScansOfScope(j) :
                    /\ n.scanrelid \in 1..Len(Scopes[j].rtable)
                    /\ OutputNode(n.id).scanrelid \in 1..Len(glob.finalrtable)
                    /\ CopyOf(glob.finalrtable[OutputNode(n.id).scanrelid],
                              Scopes[j].rtable[n.scanrelid])
                    /\ OutputNode(n.id).scanrelid = ScopeOffset(j) + n.scanrelid

\* a sub-select flattened after the root scope, after an earlier plan left
\* an entry; a scan of the sub-select names entry 2 of its scope
C30_Witness ==
    /\ Resolved
    /\ Len(prev.glob.finalrtable) > 0
    /\ Len(Scopes) > 1
    /\ \E n \in ScansOfScope(2) :
          /\ n.scanrelid = 2
          /\ OutputNode(n.id).scanrelid = Len(prev.glob.finalrtable) + Len(input.rtable) + 2

====
